---- MODULE Spec2Model ----
(***************************************************************************)
(* Model of the extractors of ucd-migrator.                                *)
(* services/ucdParser.ts: parseProcess, which annotates the steps of a     *)
(* process with the edges of its root activity and reconstructs mainFlow   *)
(* and failureFlow by a depth-first traversal, and parseUCD, which gathers *)
(* the processes of a batch of JSON documents and de-duplicates them.      *)
(* services/jenkinsParser.ts: parseJenkins, which classifies the files of  *)
(* a bundle and assembles the single process of the pipeline.              *)
(* services/githubActionsParser.ts: parseGitHubActions, which classifies   *)
(* workflow files and makes one process per dictionary entry.              *)
(* services/yamlParser.ts: parseYAML, one process per file.                *)
(***************************************************************************)
EXTENDS Integers, Sequences, FiniteSets, TLC

\* null / undefined / absent (a falsy value of the source)
Null == "<null>"

(***************************************************************************)
(* Bounds and input domains of parseProcess                                *)
(***************************************************************************)
\* most children of a root activity
MaxSteps == 3
\* most edges drawn freely (an optional leading start edge comes on top)
MaxEdges == 2

\* the names of the children, in children order
StepNames == <<"A", "B", "C", "D", "E">>
\* the ids an edge may name; an id that is no child is a dangling id
EdgeIds == {"A", "B", "C"}
StepTypes == {"plugin", "finish"}
EdgeTypes == {"SUCCESS", "FAILURE", "ALWAYS", "VALUE"}

Range(s) == {s[i] : i \in 1..Len(s)}

\* Step of types.ts: the fields parseProcess' control flow reads
ChildrenLists ==
  UNION {{[i \in 1..n |-> [name |-> StepNames[i], type |-> t[i]]] : t \in [1..n -> StepTypes]}
         : n \in 0..MaxSteps}

\* Edge of types.ts; only a VALUE edge carries a value
EdgeDomain ==
  {e \in [from : EdgeIds \cup {Null}, to : EdgeIds, type : EdgeTypes, value : {Null, "v"}] :
     e.type # "VALUE" => e.value = Null}

StartEdge == [from |-> Null, to |-> "A", type |-> "SUCCESS", value |-> Null]

EdgeLists ==
  LET free == UNION {[1..n -> EdgeDomain] : n \in 0..MaxEdges}
  IN  free \cup {<<StartEdge>> \o l : l \in free}

\* processes around a switch step: four children, a start edge to A, the two
\* VALUE edges of A, and up to MaxExtraEdges further edges that are no
\* FAILURE edges and do not leave A
MaxExtraEdges == 2
SwitchChildren ==
  {[i \in 1..4 |-> [name |-> StepNames[i], type |-> t[i]]] : t \in [1..4 -> StepTypes]}
SwitchEdges ==
  <<StartEdge,
    [from |-> "A", to |-> "B", type |-> "VALUE", value |-> "true"],
    [from |-> "A", to |-> "C", type |-> "VALUE", value |-> "false"]>>
ExtraEdgeDomain ==
  {e \in [from : {Null, "B", "C", "D"}, to : {"A", "B", "C", "D"},
          type : {"SUCCESS", "ALWAYS", "VALUE"}, value : {Null}] : TRUE}
SwitchEdgeLists ==
  {SwitchEdges \o l : l \in UNION {[1..n -> ExtraEdgeDomain] : n \in 0..MaxExtraEdges}}

\* processes in which one step has several outgoing edges: MaxSameSourceEdges
\* edges that leave A
MaxSameSourceEdges == 3
SameSourceEdgeLists ==
  [1..MaxSameSourceEdges ->
     {e \in EdgeDomain : e.from = "A" /\ e.to \in {"B", "C"} /\ e.type # "VALUE"}]

\* processes with a step that is itself named Start: the children Start, A
\* and possibly B, and up to MaxStartNamedEdges edges
MaxStartNamedEdges == 2
StartNamedChildren ==
  UNION {{[i \in 1..n |-> [name |-> <<"Start", "A", "B">>[i], type |-> t[i]]] :
            t \in [1..n -> StepTypes]} : n \in 2..3}
StartNamedEdgeLists ==
  UNION {[1..n -> [from : {Null, "Start", "A"}, to : {"Start", "A", "B"},
                   type : {"SUCCESS", "FAILURE"}, value : {Null}]] :
           n \in 0..MaxStartNamedEdges}

(***************************************************************************)
(* allParsedSteps: a JavaScript Map keyed by step id, kept as the sequence *)
(* of its values in insertion order                                        *)
(***************************************************************************)
MapIndex(m, k) ==
  IF \E i \in 1..Len(m) : m[i].id = k
  THEN CHOOSE i \in 1..Len(m) : m[i].id = k
  ELSE 0

MapSet(m, v) ==
  LET i == MapIndex(m, v.id)
  IN  IF i = 0 THEN Append(m, v) ELSE [m EXCEPT ![i] = v]

\* a JavaScript Set, kept as the sequence of its members in insertion order
SetAdd(s, x) == IF x \in Range(s) THEN s ELSE Append(s, x)

\* first pass: one ParsedStep per child
NewParsedStep(step) ==
  [name |-> step.name, id |-> step.name, type |-> step.type,
   incomingPaths |-> <<>>, onSuccess |-> Null, onFailure |-> Null,
   onAlways |-> Null, valuePaths |-> <<>>]

RECURSIVE FirstPass(_, _)
FirstPass(ch, m) ==
  IF ch = <<>> THEN m
  ELSE FirstPass(Tail(ch), MapSet(m, NewParsedStep(Head(ch))))

\* variant: an outgoing field that is set is not overwritten
SetOutgoingFirstWins(m, fi, type, value, toName) ==
  CASE type = "SUCCESS" /\ m[fi].onSuccess = Null -> [m EXCEPT ![fi].onSuccess = toName]
    [] type = "FAILURE" /\ m[fi].onFailure = Null -> [m EXCEPT ![fi].onFailure = toName]
    [] type = "ALWAYS" /\ m[fi].onAlways = Null -> [m EXCEPT ![fi].onAlways = toName]
    [] type = "VALUE"   ->
         [m EXCEPT ![fi].valuePaths =
            Append(@, [value |-> IF value = Null THEN "default" ELSE value,
                       destination |-> toName])]
    [] OTHER -> m

\* second pass, one edge: the body of the loop over rootActivity.edges
SetOutgoing(m, fi, type, value, toName) ==
  CASE type = "SUCCESS" -> [m EXCEPT ![fi].onSuccess = toName]
    [] type = "FAILURE" -> [m EXCEPT ![fi].onFailure = toName]
    [] type = "ALWAYS"  -> [m EXCEPT ![fi].onAlways = toName]
    [] type = "VALUE"   ->
         [m EXCEPT ![fi].valuePaths =
            Append(@, [value |-> IF value = Null THEN "default" ELSE value,
                       destination |-> toName])]
    [] OTHER -> m

\* variant: an edge to an unknown step still sets the outgoing field of its source
ApplyEdgeUnknownTarget(m, edge) ==
  LET ti == MapIndex(m, edge.to)
      fi == MapIndex(m, edge.from)
  IN  IF ti = 0
      THEN IF edge.from # Null /\ fi # 0
           THEN SetOutgoing(m, fi, edge.type, edge.value, edge.to)
           ELSE m
      ELSE IF edge.from # Null
        THEN IF fi = 0 THEN m
             ELSE SetOutgoing(
                    [m EXCEPT ![ti].incomingPaths =
                       Append(@, [source |-> m[fi].name, type |-> edge.type,
                                  value |-> edge.value])],
                    fi, edge.type, edge.value, m[ti].name)
        ELSE [m EXCEPT ![ti].incomingPaths =
                Append(@, [source |-> "Start", type |-> edge.type, value |-> edge.value])]

ApplyEdge(m, edge) ==
  LET ti == MapIndex(m, edge.to)
  IN  IF ti = 0 THEN m
      ELSE IF edge.from # Null
        THEN LET fi == MapIndex(m, edge.from)
             IN  IF fi = 0 THEN m
                 ELSE SetOutgoing(
                        [m EXCEPT ![ti].incomingPaths =
                           Append(@, [source |-> m[fi].name, type |-> edge.type,
                                      value |-> edge.value])],
                        fi, edge.type, edge.value, m[ti].name)
        ELSE [m EXCEPT ![ti].incomingPaths =
                Append(@, [source |-> "Start", type |-> edge.type, value |-> edge.value])]

RECURSIVE SecondPass(_, _)
SecondPass(m, es) ==
  IF es = <<>> THEN m ELSE SecondPass(ApplyEdge(m, Head(es)), Tail(es))

\* the targets of the onFailure fields, in map order
RECURSIVE FailureStarters(_, _)
FailureStarters(m, acc) ==
  IF m = <<>> THEN acc
  ELSE FailureStarters(Tail(m),
         IF Head(m).onFailure # Null THEN SetAdd(acc, Head(m).onFailure) ELSE acc)

HasStartPath(s) == \E i \in 1..Len(s.incomingPaths) : s.incomingPaths[i].source = "Start"

AllDestinations(es) == {es[i].to : i \in 1..Len(es)} \ {Null}

Ids(m) == [i \in 1..Len(m) |-> m[i].id]

\* variant: the fallback takes the steps without a recorded incoming path
StartNodesOfNoIncomingPath(m, es) ==
  LET explicit == SelectSeq(m, HasStartPath)
      IsPotentialStart(s) == s.incomingPaths = <<>> /\ s.type # "finish"
  IN  IF Len(explicit) = 0 THEN Ids(SelectSeq(m, IsPotentialStart)) ELSE Ids(explicit)

\* variant: the fallback does not leave the finish steps out
StartNodesOfWithFinish(m, es) ==
  LET explicit == SelectSeq(m, HasStartPath)
      IsPotentialStart(s) == s.id \notin AllDestinations(es)
  IN  IF Len(explicit) = 0 THEN Ids(SelectSeq(m, IsPotentialStart)) ELSE Ids(explicit)

\* the start nodes (as ids), with the fallback for graphs without start edges
StartNodesOf(m, es) ==
  LET explicit == SelectSeq(m, HasStartPath)
      IsPotentialStart(s) == s.id \notin AllDestinations(es) /\ s.type # "finish"
  IN  IF Len(explicit) = 0 THEN Ids(SelectSeq(m, IsPotentialStart)) ELSE Ids(explicit)

Destinations(vps) == [i \in 1..Len(vps) |-> vps[i].destination]

\* variant: traverse does not look at the visited set
TraverseCallRevisiting(m, vis, flow, stk) ==
  LET stepId == Head(stk)
      i == MapIndex(m, stepId)
  IN  IF stepId = Null \/ i = 0
      THEN [visited |-> vis, flow |-> flow, stack |-> Tail(stk)]
      ELSE [visited |-> vis \cup {stepId},
            flow |-> Append(flow, stepId),
            stack |-> <<m[i].onSuccess, m[i].onAlways>> \o Destinations(m[i].valuePaths)
                      \o Tail(stk)]

\* variant: traverse follows onFailure too
TraverseCallIntoFailure(m, vis, flow, stk) ==
  LET stepId == Head(stk)
      i == MapIndex(m, stepId)
  IN  IF stepId = Null \/ stepId \in vis \/ i = 0
      THEN [visited |-> vis, flow |-> flow, stack |-> Tail(stk)]
      ELSE [visited |-> vis \cup {stepId},
            flow |-> Append(flow, stepId),
            stack |-> <<m[i].onSuccess, m[i].onFailure, m[i].onAlways>>
                      \o Destinations(m[i].valuePaths) \o Tail(stk)]

\* variant: traverse follows the valuePaths before onSuccess and onAlways
TraverseCallValuePathsFirst(m, vis, flow, stk) ==
  LET stepId == Head(stk)
      i == MapIndex(m, stepId)
  IN  IF stepId = Null \/ stepId \in vis \/ i = 0
      THEN [visited |-> vis, flow |-> flow, stack |-> Tail(stk)]
      ELSE [visited |-> vis \cup {stepId},
            flow |-> Append(flow, stepId),
            stack |-> Destinations(m[i].valuePaths) \o <<m[i].onSuccess, m[i].onAlways>>
                      \o Tail(stk)]

\* one call of traverse: stack holds the pending calls, the next one first
TraverseCall(m, vis, flow, stk) ==
  LET stepId == Head(stk)
      i == MapIndex(m, stepId)
  IN  IF stepId = Null \/ stepId \in vis \/ i = 0
      THEN [visited |-> vis, flow |-> flow, stack |-> Tail(stk)]
      ELSE [visited |-> vis \cup {stepId},
            flow |-> Append(flow, stepId),
            stack |-> <<m[i].onSuccess, m[i].onAlways>> \o Destinations(m[i].valuePaths)
                      \o Tail(stk)]

\* variant: the sweep does not look at the visited set
SweepStepOfVisited(s, vis, flows) ==
  IF s.type # "finish"
  THEN IF \E i \in 1..Len(s.incomingPaths) : s.incomingPaths[i].type = "FAILURE"
       THEN IF s.id \in Range(flows.failureFlow) THEN flows
            ELSE [flows EXCEPT !.failureFlow = Append(@, s.id)]
       ELSE IF s.id \in Range(flows.mainFlow) THEN flows
            ELSE [flows EXCEPT !.mainFlow = Append(@, s.id)]
  ELSE flows

\* the sweep of the unvisited steps, one step
SweepStep(s, vis, flows) ==
  IF s.id \notin vis /\ s.type # "finish"
  THEN IF \E i \in 1..Len(s.incomingPaths) : s.incomingPaths[i].type = "FAILURE"
       THEN IF s.id \in Range(flows.failureFlow) THEN flows
            ELSE [flows EXCEPT !.failureFlow = Append(@, s.id)]
       ELSE IF s.id \in Range(flows.mainFlow) THEN flows
            ELSE [flows EXCEPT !.mainFlow = Append(@, s.id)]
  ELSE flows

RECURSIVE Sweep(_, _, _)
Sweep(m, vis, flows) ==
  IF m = <<>> THEN flows ELSE Sweep(Tail(m), vis, SweepStep(Head(m), vis, flows))

(***************************************************************************)
(* parseProcess as a function of its input: the same passes, with the      *)
(* traversal run to completion                                             *)
(***************************************************************************)
RECURSIVE RunTraverse(_, _, _, _)
RunTraverse(m, vis, flow, stk) ==
  IF stk = <<>> THEN [visited |-> vis, flow |-> flow]
  ELSE LET r == TraverseCall(m, vis, flow, stk)
       IN  RunTraverse(m, r.visited, r.flow, r.stack)

\* a forEach over seeds: traverse from every seed not visited yet
RECURSIVE RunSeeds(_, _, _, _)
RunSeeds(m, seeds, vis, flow) ==
  IF seeds = <<>> THEN [visited |-> vis, flow |-> flow]
  ELSE LET r == IF Head(seeds) \in vis THEN [visited |-> vis, flow |-> flow]
                ELSE RunTraverse(m, vis, flow, <<Head(seeds)>>)
       IN  RunSeeds(m, Tail(seeds), r.visited, r.flow)

ParseProcess(ch, es) ==
  LET m == SecondPass(FirstPass(ch, <<>>), es)
      main == RunSeeds(m, StartNodesOf(m, es), {}, <<>>)
      fail == RunSeeds(m, FailureStarters(m, <<>>), main.visited, <<>>)
      flows == Sweep(m, fail.visited, [mainFlow |-> main.flow, failureFlow |-> fail.flow])
  IN  [steps |-> m, mainFlow |-> flows.mainFlow, failureFlow |-> flows.failureFlow]

(***************************************************************************)
(* parseUCD: bounds and input domains                                      *)
(***************************************************************************)
\* most documents of a batch
MaxDocs == 2
\* most entries of a document's processes
MaxProcs == 1
\* most entries of a document's genericProcesses
MaxGeneric == 1
\* most linkedProcesses of a generic process
MaxLinked == 1

ProcNames == {"p", "q"}
ProcShapes == [name : ProcNames, hasRoot : BOOLEAN]
ShapeLists(n) == UNION {[1..k -> ProcShapes] : k \in 0..n}

\* the root activity of the processes that have one
SomeRootActivity ==
  [children |-> <<[name |-> "A", type |-> "plugin"], [name |-> "B", type |-> "finish"]>>,
   edges |-> <<[from |-> Null, to |-> "A", type |-> "SUCCESS", value |-> Null]>>]

\* UCDProcess of types.ts; the description tells the occurrences of a name apart
UCDProcessOf(shape, tag, linked) ==
  [name |-> shape.name, description |-> tag, hasRoot |-> shape.hasRoot,
   linkedProcesses |-> linked]

\* what JSON.parse makes of a document: it throws ("invalid"), returns null
\* ("null"), or returns an object with or without the fields parseUCD reads
DocumentShapes ==
  [json : {"invalid", "null"}, name : {Null}, hasProcesses : {FALSE}, processes : {<<>>},
   hasGeneric : {FALSE}, generic : {<<>>}, linked : {<<>>}]
  \cup
  {d \in [json : {"object"}, name : {Null, "comp"},
          hasProcesses : BOOLEAN, processes : ShapeLists(MaxProcs),
          hasGeneric : BOOLEAN, generic : ShapeLists(MaxGeneric),
          linked : ShapeLists(MaxLinked)] :
     /\ ~d.hasProcesses => d.processes = <<>>
     /\ ~d.hasGeneric => d.generic = <<>>
     /\ d.generic = <<>> => d.linked = <<>>}

\* the document at position j of the batch
DocumentOf(j, d) ==
  [json |-> d.json, name |-> d.name,
   hasProcesses |-> d.hasProcesses,
   processes |-> [i \in 1..Len(d.processes) |->
                    UCDProcessOf(d.processes[i], <<j, "processes", i>>, <<>>)],
   hasGeneric |-> d.hasGeneric,
   genericProcesses |->
     [i \in 1..Len(d.generic) |->
        UCDProcessOf(d.generic[i], <<j, "generic", i>>,
          [k \in 1..Len(d.linked) |->
             UCDProcessOf(d.linked[k], <<j, "linked", i, k>>, <<>>)])]]

\* a generic process followed by its linked processes, for each generic process
RECURSIVE WithLinked(_)
WithLinked(gps) ==
  IF gps = <<>> THEN <<>>
  ELSE <<Head(gps)>> \o Head(gps).linkedProcesses \o WithLinked(Tail(gps))

\* the check of a parsed document: a name and processes or genericProcesses
HasTemplateShape(data) == data.name # Null /\ (data.hasProcesses \/ data.hasGeneric)

\* what a document adds to allProcesses
ProcessesOf(data) ==
  (IF data.hasProcesses THEN data.processes ELSE <<>>)
  \o (IF data.hasGeneric THEN WithLinked(data.genericProcesses) ELSE <<>>)

\* variant: the last process of the name, not the first
FindLastIndexByName(all, name) ==
  IF \E i \in 1..Len(all) : all[i].name = name
  THEN CHOOSE i \in 1..Len(all) :
         all[i].name = name /\ \A j \in (i + 1)..Len(all) : all[j].name # name
  ELSE 0

\* self.findIndex(t => t.name === name)
FindIndexByName(all, name) ==
  IF \E i \in 1..Len(all) : all[i].name = name
  THEN CHOOSE i \in 1..Len(all) : all[i].name = name /\ \A j \in 1..(i - 1) : all[j].name # name
  ELSE 0

\* the filter of allProcesses: a root activity, and the first of its name
RECURSIVE UniqueFrom(_, _)
UniqueFrom(all, i) ==
  IF i > Len(all) THEN <<>>
  ELSE (IF all[i].hasRoot /\ i = FindIndexByName(all, all[i].name) THEN <<all[i]>> ELSE <<>>)
       \o UniqueFrom(all, i + 1)

UniqueProcesses(all) == UniqueFrom(all, 1)

\* the ParsedStep objects of a flow
StepsOf(m, ids) == [i \in 1..Len(ids) |-> m[MapIndex(m, ids[i])]]

\* parseProcess of a process of a document
ParseUCDProcess(process) ==
  IF ~process.hasRoot
  THEN [name |-> process.name, description |-> process.description,
        mainFlow |-> <<>>, failureFlow |-> <<>>]
  ELSE LET r == ParseProcess(SomeRootActivity.children, SomeRootActivity.edges)
       IN  [name |-> process.name, description |-> process.description,
            mainFlow |-> StepsOf(r.steps, r.mainFlow),
            failureFlow |-> StepsOf(r.steps, r.failureFlow)]

(***************************************************************************)
(* parseJenkins (services/jenkinsParser.ts): the files of a batch.  A file *)
(* content is kept as the set of the markers the code looks for in it.     *)
(* "jenkinsfile" is an occurrence in the lower-cased first five lines,     *)
(* "config.xml" and "build.xml" an occurrence in the first five lines,     *)
(* "<?xml" the prolog at the start of the trimmed content; every other     *)
(* marker is an occurrence anywhere in the content.                        *)
(***************************************************************************)
\* the most files of a batch
MaxFiles == 3
\* the most markers in one content
MaxMarkers == 2

JenkinsMarkers ==
  {"jenkinsfile", "config.xml", "<project>", "build.xml", "<project name=",
   "def ", "import ", "class ", "@NonCPS", "<?xml"}
JenkinsContents == {c \in SUBSET JenkinsMarkers : Cardinality(c) <= MaxMarkers}
JenkinsFileTypes == {"jenkinsfile", "config.xml", "build.xml", "groovy", "xml", "unknown"}

\* a file name is kept as the sequence of its parts
ExtractFileName(content, index) ==
  IF "jenkinsfile" \in content THEN <<"Jenkinsfile">>
  ELSE IF "config.xml" \in content \/ "<project>" \in content THEN <<"config.xml">>
  ELSE IF "build.xml" \in content \/ "<project name=" \in content THEN <<"build.xml">>
  ELSE IF "def " \in content \/ "import " \in content \/ "class " \in content
       THEN <<"SharedLibrary_", ToString(index + 1), ".groovy">>
  ELSE <<"file_", ToString(index + 1)>>

\* String.prototype.toLowerCase on the parts of a file name
ToLowerCase(fileName) ==
  [i \in 1..Len(fileName) |->
     CASE fileName[i] = "Jenkinsfile" -> "jenkinsfile"
       [] fileName[i] = "SharedLibrary_" -> "sharedlibrary_"
       [] OTHER -> fileName[i]]

\* detectFileType with the script test moved in front of the name tests
DetectFileTypeScriptFirst(fileName, content) ==
  LET lowerFileName == ToLowerCase(fileName)
  IN  IF lowerFileName[Len(lowerFileName)] = ".groovy" \/ "def " \in content \/ "@NonCPS" \in content
        THEN "groovy"
      ELSE IF \E i \in 1..Len(lowerFileName) : lowerFileName[i] = "jenkinsfile"
        THEN "jenkinsfile"
      ELSE IF lowerFileName = <<"config.xml">> THEN "config.xml"
      ELSE IF lowerFileName = <<"build.xml">> THEN "build.xml"
      ELSE IF "<?xml" \in content \/ "<project>" \in content THEN "xml"
      ELSE "unknown"

DetectFileType(fileName, content) ==
  LET lowerFileName == ToLowerCase(fileName)
  IN  IF \E i \in 1..Len(lowerFileName) : lowerFileName[i] = "jenkinsfile"
        THEN "jenkinsfile"
      ELSE IF lowerFileName = <<"config.xml">> THEN "config.xml"
      ELSE IF lowerFileName = <<"build.xml">> THEN "build.xml"
      ELSE IF lowerFileName[Len(lowerFileName)] = ".groovy" \/ "def " \in content \/ "@NonCPS" \in content
        THEN "groovy"
      ELSE IF "<?xml" \in content \/ "<project>" \in content THEN "xml"
      ELSE "unknown"

(***************************************************************************)
(* A JavaScript object used as a dictionary with string keys that are not  *)
(* array indices: the sequence of its entries in insertion order.          *)
(* Assigning to a key it has replaces the value and keeps the position.    *)
(***************************************************************************)
ObjectIndex(o, k) ==
  IF \E i \in 1..Len(o) : o[i].key = k
  THEN CHOOSE i \in 1..Len(o) : o[i].key = k
  ELSE 0

ObjectSet(o, k, v) ==
  LET i == ObjectIndex(o, k)
  IN  IF i = 0 THEN Append(o, [key |-> k, value |-> v])
      ELSE [o EXCEPT ![i] = [key |-> k, value |-> v]]

\* an optional field is <<>> when undefined and <<v>> when it holds v; a content
\* that was given a type carries a marker, so it is not the empty string
Truthy(field) == field # <<>>

EmptyJenkinsBundle ==
  [jenkinsfile |-> <<>>, configXml |-> <<>>, buildXml |-> <<>>,
   groovyScripts |-> <<>>, allFiles |-> <<>>]

\* the body of the forEach over fileContents; index counts from 0
CategorizeFile(b, content, index) ==
  LET fileName == ExtractFileName(content, index)
      fileType == DetectFileType(fileName, content)
      pushed == [b EXCEPT !.allFiles =
                   Append(@, [fileName |-> fileName, content |-> content, type |-> fileType])]
  IN  CASE fileType = "jenkinsfile" -> [pushed EXCEPT !.jenkinsfile = <<content>>]
        [] fileType = "config.xml" -> [pushed EXCEPT !.configXml = <<content>>]
        [] fileType = "build.xml" -> [pushed EXCEPT !.buildXml = <<content>>]
        [] fileType = "groovy" -> [pushed EXCEPT !.groovyScripts = ObjectSet(@, fileName, content)]
        [] OTHER -> pushed

\* the guard with an extra test that the batch has files
NoValidJenkinsFilesOfSomeFiles(b) ==
  /\ b.allFiles # <<>>
  /\ ~Truthy(b.jenkinsfile)
  /\ ~Truthy(b.configXml)
  /\ Len(b.groovyScripts) = 0

\* the guard of the return of null
NoValidJenkinsFiles(b) ==
  /\ ~Truthy(b.jenkinsfile)
  /\ ~Truthy(b.configXml)
  /\ Len(b.groovyScripts) = 0

ParseJenkinsfile(content) ==
  <<[id |-> <<"jenkinsfile">>, name |-> <<"Jenkinsfile">>, scriptBody |-> <<content>>]>>

ParseConfigXml(content) ==
  [id |-> <<"config_xml">>, name |-> <<"Job Configuration (config.xml)">>, scriptBody |-> <<>>]

ParseBuildXml(content) ==
  [id |-> <<"build_xml">>, name |-> <<"Build Configuration (build.xml)">>, scriptBody |-> <<>>]

\* fileName.replace(/[^a-zA-Z0-9]/g, '_') on the parts of a file name
ReplaceNonAlphanumeric(fileName) ==
  [i \in 1..Len(fileName) |->
     CASE fileName[i] = ".groovy" -> "_groovy"
       [] fileName[i] = "config.xml" -> "config_xml"
       [] fileName[i] = "build.xml" -> "build_xml"
       [] OTHER -> fileName[i]]

ParseGroovyScript(fileName, content) ==
  [id |-> <<"groovy_">> \o ReplaceNonAlphanumeric(fileName),
   name |-> <<"Shared Library: ">> \o fileName,
   scriptBody |-> <<content>>]

SummaryStep(b) ==
  [id |-> <<"bundle_summary">>, name |-> <<"Bundle Summary">>, scriptBody |-> <<>>,
   properties |-> [totalFiles |-> Len(b.allFiles),
                   hasJenkinsfile |-> Truthy(b.jenkinsfile),
                   hasConfigXml |-> Truthy(b.configXml),
                   hasBuildXml |-> Truthy(b.buildXml),
                   groovyScriptCount |-> Len(b.groovyScripts),
                   fileList |-> [i \in 1..Len(b.allFiles) |->
                                   <<b.allFiles[i].fileName, b.allFiles[i].type>>]]]

\* parseJenkinsBundle with the summary step pushed instead of unshifted
ParseJenkinsBundleSummaryLast(b) ==
  LET fromJenkinsfile == IF Truthy(b.jenkinsfile) THEN ParseJenkinsfile(b.jenkinsfile[1]) ELSE <<>>
      fromConfigXml == IF Truthy(b.configXml) THEN <<ParseConfigXml(b.configXml[1])>> ELSE <<>>
      fromBuildXml == IF Truthy(b.buildXml) THEN <<ParseBuildXml(b.buildXml[1])>> ELSE <<>>
      fromGroovy == [i \in 1..Len(b.groovyScripts) |->
                       ParseGroovyScript(b.groovyScripts[i].key, b.groovyScripts[i].value)]
  IN  [name |-> "Jenkins Pipeline Analysis",
       description |-> Len(b.allFiles),
       mainFlow |-> fromJenkinsfile \o fromConfigXml \o fromBuildXml \o fromGroovy \o <<SummaryStep(b)>>,
       failureFlow |-> <<>>]

\* the description is kept as the number of files it prints
ParseJenkinsBundle(b) ==
  LET fromJenkinsfile == IF Truthy(b.jenkinsfile) THEN ParseJenkinsfile(b.jenkinsfile[1]) ELSE <<>>
      fromConfigXml == IF Truthy(b.configXml) THEN <<ParseConfigXml(b.configXml[1])>> ELSE <<>>
      fromBuildXml == IF Truthy(b.buildXml) THEN <<ParseBuildXml(b.buildXml[1])>> ELSE <<>>
      fromGroovy == [i \in 1..Len(b.groovyScripts) |->
                       ParseGroovyScript(b.groovyScripts[i].key, b.groovyScripts[i].value)]
  IN  [name |-> "Jenkins Pipeline Analysis",
       description |-> Len(b.allFiles),
       mainFlow |-> <<SummaryStep(b)>> \o fromJenkinsfile \o fromConfigXml \o fromBuildXml \o fromGroovy,
       failureFlow |-> <<>>]

(***************************************************************************)
(* parseGitHubActions (services/githubActionsParser.ts): the files of a    *)
(* batch.  A file content is kept as what extractFileName finds in its     *)
(* first ten lines (head) and what yaml.load makes of it (yaml).           *)
(***************************************************************************)
\* the most files of a batch of workflow files
MaxWorkflowFiles == 2

WorkflowNames == {"CI", "CD"}
\* name: the capture of /name:\s*['"]?([^'"\\n]+)['"]?/ when the first lines hold
\* 'name:' and 'on:' or 'jobs:', else Null; runsUsing: they hold 'runs:' and 'using:'
GhaHeads ==
  {[name |-> n, runsUsing |-> FALSE] : n \in WorkflowNames \cup {Null}}
    \cup {[name |-> Null, runsUsing |-> TRUE]}

RunStep == [uses |-> <<>>, run |-> <<"make">>]
UsesStep == [uses |-> <<"actions/checkout">>, run |-> <<>>]
\* the values of the jobs field: absent, or the entries of the mapping in order;
\* the keys of a YAML mapping are case-sensitive
JobsValues ==
  {<<>>,
   <<<<>>>>,
   <<<<[jobId |-> "build", steps |-> <<<<UsesStep, RunStep>>>>]>>>>,
   <<<<[jobId |-> "build", steps |-> <<>>], [jobId |-> "test", steps |-> <<<<RunStep>>>>]>>>>,
   <<<<[jobId |-> "Build", steps |-> <<<<RunStep>>>>], [jobId |-> "build", steps |-> <<>>]>>>>}
\* the values of the on field: absent, a trigger other than workflow_call, the
\* key workflow_call without a value, the key workflow_call with a mapping
OnValues == {"absent", "push", "workflow_call:", "workflow_call: {inputs}"}
RunsValues ==
  {<<>>,
   <<[using |-> "composite", steps |-> <<<<RunStep>>>>]>>,
   <<[using |-> "docker", steps |-> <<>>]>>}

\* what yaml.load returns: it throws, undefined (an empty document), a scalar,
\* or a mapping with the fields the code reads
YamlValues ==
  {[kind |-> k, on |-> "absent", jobs |-> <<>>, runs |-> <<>>] : k \in {"throws", "undefined", "scalar"}}
    \cup {[kind |-> "mapping", on |-> o, jobs |-> j, runs |-> r] :
            o \in OnValues, j \in JobsValues, r \in RunsValues}

\* a document whose first lines name it parses with that name
GhaContents == {[head |-> h, yaml |-> y] : h \in GhaHeads, y \in YamlValues}

YamlThrows(content) == content.yaml.kind = "throws"
\* parsed.name
YamlName(content) == IF content.yaml.kind = "mapping" THEN content.head.name ELSE Null

GhaExtractFileName(content, index) ==
  IF content.head.name # Null THEN <<content.head.name, ".yml">>
  ELSE IF content.head.runsUsing THEN <<"action_", ToString(index + 1), ".yml">>
  ELSE <<"workflow_", ToString(index + 1), ".yml">>

GhaDetectFileType(fileName, content) ==
  IF YamlThrows(content) THEN "unknown"
  ELSE LET parsed == content.yaml
       IN  IF parsed.kind = "mapping" /\ parsed.on # "absent" /\ parsed.jobs # <<>>
             THEN IF parsed.on = "workflow_call: {inputs}" THEN "reusable-workflow" ELSE "workflow"
           ELSE IF parsed.kind = "mapping" /\ parsed.runs # <<>> /\ parsed.runs[1].using = "composite"
             THEN "composite-action"
           ELSE "workflow"

EmptyGitHubActionsBundle ==
  [workflows |-> <<>>, compositeActions |-> <<>>, reusableWorkflows |-> <<>>, allFiles |-> <<>>]

\* the body of the forEach over fileContents; index counts from 0
GhaCategorizeFile(b, content, index) ==
  LET fileName == GhaExtractFileName(content, index)
      fileType == GhaDetectFileType(fileName, content)
      pushed == [b EXCEPT !.allFiles =
                   Append(@, [fileName |-> fileName, content |-> content, type |-> fileType])]
  IN  CASE fileType = "workflow" -> [pushed EXCEPT !.workflows = ObjectSet(@, fileName, content)]
        [] fileType = "composite-action" ->
             [pushed EXCEPT !.compositeActions = ObjectSet(@, fileName, content)]
        [] fileType = "reusable-workflow" ->
             [pushed EXCEPT !.reusableWorkflows = ObjectSet(@, fileName, content)]
        [] OTHER -> pushed

\* the guard of the return of null
NoValidWorkflowFiles(b) ==
  Len(b.workflows) = 0 /\ Len(b.compositeActions) = 0 /\ Len(b.reusableWorkflows) = 0

\* str.replace(/[^a-zA-Z0-9_]/g, '_').toLowerCase() on the parts of a name
SanitizeId(str) ==
  [i \in 1..Len(str) |->
     CASE str[i] = ".yml" -> "_yml"
       [] str[i] = "CI" -> "ci"
       [] str[i] = "CD" -> "cd"
       [] str[i] = "Build" -> "build"
       [] OTHER -> str[i]]

\* parseStep that attaches no script
ParseStepWithoutScript(jobId, step, index) ==
  [id |-> <<"step_">> \o SanitizeId(<<jobId>>) \o <<"_", ToString(index)>>,
   name |-> IF step.uses # <<>> THEN step.uses ELSE IF step.run # <<>> THEN step.run
            ELSE <<"Step ", ToString(index + 1)>>,
   scriptBody |-> <<>>]

\* index counts from 0; a step of the model has no name of its own
ParseStep(jobId, step, index) ==
  [id |-> <<"step_">> \o SanitizeId(<<jobId>>) \o <<"_", ToString(index)>>,
   name |-> IF step.uses # <<>> THEN step.uses ELSE IF step.run # <<>> THEN step.run
            ELSE <<"Step ", ToString(index + 1)>>,
   scriptBody |-> step.run]

ParseJob(jobId, job) ==
  <<[id |-> <<"job_">> \o SanitizeId(<<jobId>>), name |-> <<"Job: ", jobId>>, scriptBody |-> <<>>]>>
    \o (IF job.steps # <<>>
        THEN [i \in 1..Len(job.steps[1]) |-> ParseStep(jobId, job.steps[1][i], i - 1)]
        ELSE <<>>)

RECURSIVE JobSteps(_)
\* the forEach over Object.entries(workflow.jobs)
JobSteps(entries) ==
  IF entries = <<>> THEN <<>>
  ELSE ParseJob(entries[1].jobId, entries[1]) \o JobSteps(Tail(entries))

\* workflow.name || fileName
NameOr(content, fileName) == IF YamlName(content) # Null THEN <<YamlName(content)>> ELSE fileName

\* the process of a file, or <<>> for the null of the catch block: yaml.load
\* throws, or it returns undefined and reading workflow.name throws
ParseWorkflowFile(fileName, content) ==
  IF content.yaml.kind \in {"throws", "undefined"} THEN <<>>
  ELSE <<[name |-> NameOr(content, fileName),
          description |-> <<"GitHub Actions workflow from ">> \o fileName,
          mainFlow |-> <<[id |-> <<"workflow_">> \o SanitizeId(fileName),
                          name |-> <<"Workflow: ">> \o NameOr(content, fileName),
                          scriptBody |-> <<content>>]>>
                         \o (IF content.yaml.jobs # <<>> THEN JobSteps(content.yaml.jobs[1]) ELSE <<>>),
          failureFlow |-> <<>>]>>

ParseCompositeAction(fileName, content) ==
  IF content.yaml.kind \in {"throws", "undefined"} THEN <<>>
  ELSE <<[name |-> NameOr(content, fileName),
          description |-> <<"Composite action from ">> \o fileName,
          mainFlow |-> <<[id |-> <<"action_">> \o SanitizeId(fileName),
                          name |-> <<"Composite Action: ">> \o NameOr(content, fileName),
                          scriptBody |-> <<content>>]>>
                         \o (IF content.yaml.runs # <<>> /\ content.yaml.runs[1].steps # <<>>
                             THEN [i \in 1..Len(content.yaml.runs[1].steps[1]) |->
                                     ParseStep("composite", content.yaml.runs[1].steps[1][i], i - 1)]
                             ELSE <<>>),
          failureFlow |-> <<>>]>>

ParseReusableWorkflow(fileName, content) ==
  IF content.yaml.kind \in {"throws", "undefined"} THEN <<>>
  ELSE <<[name |-> NameOr(content, fileName),
          description |-> <<"Reusable workflow from ">> \o fileName,
          mainFlow |-> <<[id |-> <<"reusable_">> \o SanitizeId(fileName),
                          name |-> <<"Reusable Workflow: ">> \o NameOr(content, fileName),
                          scriptBody |-> <<content>>]>>
                         \o (IF content.yaml.jobs # <<>> THEN JobSteps(content.yaml.jobs[1]) ELSE <<>>),
          failureFlow |-> <<>>]>>

CreateSummaryProcess(b) ==
  [name |-> <<"Bundle Summary">>,
   description |-> <<"Summary of ", ToString(Len(b.allFiles)), " GitHub Actions file(s)">>,
   mainFlow |-> <<[id |-> <<"bundle_summary">>, name |-> <<"GitHub Actions Bundle Summary">>,
                   scriptBody |-> <<>>,
                   properties |-> [totalFiles |-> Len(b.allFiles),
                                   workflowCount |-> Len(b.workflows),
                                   compositeActionCount |-> Len(b.compositeActions),
                                   reusableWorkflowCount |-> Len(b.reusableWorkflows),
                                   fileList |-> [i \in 1..Len(b.allFiles) |->
                                                   <<b.allFiles[i].fileName, b.allFiles[i].type>>]]]>>,
   failureFlow |-> <<>>]

RECURSIVE ProcessesOfEntries(_, _)
\* Object.entries(o).forEach: the processes that are not null, in order; kind
\* selects the parse function of the dictionary
ProcessesOfEntries(kind, o) ==
  IF o = <<>> THEN <<>>
  ELSE (CASE kind = "workflow" -> ParseWorkflowFile(o[1].key, o[1].value)
          [] kind = "composite-action" -> ParseCompositeAction(o[1].key, o[1].value)
          [] kind = "reusable-workflow" -> ParseReusableWorkflow(o[1].key, o[1].value))
       \o ProcessesOfEntries(kind, Tail(o))

GhaProcesses(b) ==
  <<CreateSummaryProcess(b)>>
    \o ProcessesOfEntries("workflow", b.workflows)
    \o ProcessesOfEntries("composite-action", b.compositeActions)
    \o ProcessesOfEntries("reusable-workflow", b.reusableWorkflows)

(***************************************************************************)
(* parseYAML (services/yamlParser.ts): a file content is kept as what      *)
(* yaml.load makes of it and the two names the code reads                  *)
(***************************************************************************)
YamlDocs ==
  {[kind |-> k, pipelineName |-> Null, name |-> Null] : k \in {"throws", "undefined"}}
    \cup {[kind |-> "mapping", pipelineName |-> p, name |-> n] :
            p \in {Null, "Deploy"}, n \in {Null, "CI"}}

\* yamlData?.pipeline?.name || yamlData?.name || `YAML Pipeline ${index + 1}`
PipelineName(content, index) ==
  IF content.pipelineName # Null THEN <<content.pipelineName>>
  ELSE IF content.name # Null THEN <<content.name>>
  ELSE <<"YAML Pipeline ", ToString(index + 1)>>

\* the process of the try block; index counts from 0
YamlProcess(content, index) ==
  [name |-> PipelineName(content, index),
   description |-> <<"Uploaded YAML pipeline">>,
   mainFlow |-> <<[id |-> <<"yaml-", ToString(index + 1)>>, name |-> <<"YAML Content">>,
                   properties |-> [rawYaml |-> content]]>>,
   failureFlow |-> <<>>]

\* the process of the catch block
YamlErrorProcess(content, index) ==
  [name |-> <<"YAML File ", ToString(index + 1), " (Parse Error)">>,
   description |-> <<"YAML content with parse error">>,
   mainFlow |-> <<[id |-> <<"yaml-error-", ToString(index + 1)>>,
                   name |-> <<"Raw YAML Content (Parse Error)">>,
                   properties |-> [rawYaml |-> content]]>>,
   failureFlow |-> <<>>]

\* componentName after the file at index
ComponentNameAfter(componentName, content, index) ==
  IF index = 0 /\ content.pipelineName # Null THEN <<content.pipelineName>> ELSE componentName

(***************************************************************************)
(* Repeated calls of an extractor: the batches a client passes             *)
(***************************************************************************)
\* the most calls of an extractor
MaxCalls == 3
\* the most files of a batch of a repeated call
MaxCallFiles == 1

Extractors == {"parseUCD", "parseJenkins", "parseGitHubActions", "parseYAML"}
BatchesOf(contents) == UNION {[1..n -> contents] : n \in 0..MaxCallFiles}
UcdCallBatches ==
  UNION {{[j \in 1..n |-> DocumentOf(j, ds[j])] : ds \in [1..n -> DocumentShapes]} : n \in 0..MaxCallFiles}

\* the bundle of a call is the object of a module-level declaration
NewJenkinsBundleShared(previous) == previous

\* const bundle = {...} in the body of parseJenkins: a new object on every call,
\* whatever the previous call left
NewJenkinsBundle(previous) == EmptyJenkinsBundle

(***************************************************************************)
(* stringifyParsedDataForPrompt (services/geminiService.ts).  A text is    *)
(* kept as the sequence of its lines and a line as the sequence of the     *)
(* pieces the template literal joins; every piece the code appends ends    *)
(* with a line break, so the output is a whole number of lines.            *)
(* An optional field is <<>> when undefined and <<value>> otherwise.       *)
(***************************************************************************)
MaxPromptProcesses == 2
MaxMainSteps == 2
MaxFailureSteps == 1

EmptyLine == <<>>
\* the delimiter line of three backquotes, written with apostrophes
Fence == <<"'''">>
\* the empty string: a text of one empty line
EmptyText == <<EmptyLine>>

\* a string in a condition: undefined and '' are falsy
TruthyText(field) == field # <<>> /\ field[1] # EmptyText
TruthyName(field) == field # <<>> /\ field[1] # ""

PromptScripts ==
  { <<>>,
    <<EmptyText>>,
    << <<<<"echo deploy">>>> >>,
    << <<<<"cat <<EOF">>, Fence, EmptyLine, <<"EOF">>>> >> }

PromptStep(name, script, rich) ==
  [ name |-> name,
    type |-> "plugin",
    details |-> "Plugin",
    preconditionScript |-> (IF rich THEN << <<<<"properties.get('run')">>>> >> ELSE <<>>),
    scriptBody |-> script,
    postProcessingScript |-> (IF rich THEN << <<<<"scanner.scan()">>, <<"commandOut.print()">>>> >> ELSE <<EmptyText>>),
    onSuccess |-> (IF rich THEN <<"B">> ELSE <<>>),
    onFailure |-> (IF rich THEN <<"C">> ELSE <<"">>),
    onAlways |-> (IF rich THEN <<"A">> ELSE <<>>),
    valuePaths |-> (IF rich
                    THEN <<[value |-> "true", destination |-> "B"],
                           [value |-> "false", destination |-> "C"]>>
                    ELSE <<>>) ]

PromptSteps ==
  { PromptStep("A", s, FALSE) : s \in PromptScripts }
    \cup { PromptStep("B", <<>>, TRUE),
           PromptStep("B", << <<<<"cat <<EOF">>, Fence, EmptyLine, <<"EOF">>>> >>, TRUE) }

SeqsUpTo(S, n) == UNION { [1..k -> S] : k \in 0..n }

PromptProcesses ==
  { [name |-> n, description |-> "deploys", mainFlow |-> m, failureFlow |-> f] :
      n \in {"Deploy", "Rollback"},
      m \in SeqsUpTo(PromptSteps, MaxMainSteps),
      f \in SeqsUpTo({PromptStep("A", <<>>, FALSE),
                      PromptStep("A", << <<<<"echo deploy">>>> >>, FALSE),
                      PromptStep("B", <<>>, TRUE)}, MaxFailureSteps) }

PromptData ==
  { [isNull |-> FALSE, componentName |-> <<"App">>, processes |-> ps] :
      ps \in SeqsUpTo(PromptProcesses, MaxPromptProcesses) }

RECURSIVE Flatten(_)
Flatten(texts) ==
  IF texts = <<>> THEN <<>> ELSE Head(texts) \o Flatten(Tail(texts))

\* the title line, a delimiter line, the script, a delimiter line, when the
\* script is truthy
ScriptSection(title, field) ==
  IF TruthyText(field)
  THEN <<<<title>>, Fence>> \o field[1] \o <<Fence>>
  ELSE <<>>

PathLine(title, field) ==
  IF TruthyName(field) THEN <<<<title, field[1], "\"">>>> ELSE <<>>

ValuePathLines(step) ==
  [i \in 1..Len(step.valuePaths) |->
     <<"- On Value \"", step.valuePaths[i].value, "\" -> \"",
       step.valuePaths[i].destination, "\"">>]

StepBlockWithoutClosingFence(step) ==
  <<EmptyLine, <<"#### Step: \"", step.name, "\"">>,
    <<"- Type: ", step.type>>,
    <<"- Details: ", step.details>>>>
  \o ScriptSection("- Precondition Script:", step.preconditionScript)
  \o (IF TruthyText(step.scriptBody)
      THEN <<<<"- Script Body:">>, Fence>> \o step.scriptBody[1]
      ELSE <<>>)
  \o ScriptSection("- Post-Processing Script:", step.postProcessingScript)
  \o PathLine("- On Success -> \"", step.onSuccess)
  \o PathLine("- On Failure -> \"", step.onFailure)
  \o PathLine("- On Always -> \"", step.onAlways)
  \o ValuePathLines(step)

\* the body of flow.forEach
StepBlock(step) ==
  <<EmptyLine, <<"#### Step: \"", step.name, "\"">>,
    <<"- Type: ", step.type>>,
    <<"- Details: ", step.details>>>>
  \o ScriptSection("- Precondition Script:", step.preconditionScript)
  \o ScriptSection("- Script Body:", step.scriptBody)
  \o ScriptSection("- Post-Processing Script:", step.postProcessingScript)
  \o PathLine("- On Success -> \"", step.onSuccess)
  \o PathLine("- On Failure -> \"", step.onFailure)
  \o PathLine("- On Always -> \"", step.onAlways)
  \o ValuePathLines(step)

StringifyFlow(flowName, flow) ==
  IF Len(flow) > 0
  THEN <<<<"### ", flowName>>>> \o Flatten([i \in 1..Len(flow) |-> StepBlock(flow[i])])
  ELSE <<>>

\* the body of parsedData.processes.forEach
ProcessText(process) ==
  <<<<"## Process: ", process.name>>,
    <<"Description: ", process.description>>, EmptyLine>>
  \o StringifyFlow("Main Execution Flow", process.mainFlow)
  \o StringifyFlow("Failure Handling Flow", process.failureFlow)

(***************************************************************************)
(* ProcessView (components/ProcessView.tsx): the generation workflow.  A   *)
(* WorkflowStep is kept by the fields the handlers read and write; the     *)
(* result of a generation is kept as the kind of text it is.               *)
(***************************************************************************)
\* most custom steps added, most generations awaiting the model at a time,
\* most context sources chosen in the dialog
MaxCustomSteps == 1
MaxInFlight == 2
MaxContextSources == 2

WorkflowStep(id, parentId, contextSourceIds) ==
  [id |-> id, parentId |-> parentId, status |-> "initial", result |-> "",
   isCustom |-> FALSE, contextSourceIds |-> contextSourceIds]

GetInitialWorkflow ==
  <<WorkflowStep("base", Null, <<>>),
    WorkflowStep("enrich", "base", <<"base">>),
    WorkflowStep("validate-scripts", "enrich", <<"enrich">>),
    WorkflowStep("validate-schema", "validate-scripts", <<"validate-scripts">>)>>

\* generateId: the time and a random suffix, a fresh id every time
GenerateId(n) == "step_" \o ToString(n)

\* workflow.find(s => s.id === id): the step, or <<>> for undefined
FindStep(w, id) ==
  IF \E i \in 1..Len(w) : w[i].id = id
  THEN <<w[CHOOSE i \in 1..Len(w) : w[i].id = id /\ \A j \in 1..(i - 1) : w[j].id # id]>>
  ELSE <<>>

\* prev.map(s => s.id === stepId ? {...s, status, result} : s)
SetStatusAndResult(w, stepId, status, res) ==
  [i \in 1..Len(w) |->
     IF w[i].id = stepId THEN [w[i] EXCEPT !.status = status, !.result = res] ELSE w[i]]

\* prev.map(s => s.id === childId ? {...s, status: 'pending'} : s)
SetStatus(w, stepId, status) ==
  [i \in 1..Len(w) |-> IF w[i].id = stepId THEN [w[i] EXCEPT !.status = status] ELSE w[i]]

\* contextSourceIds.map(id => workflow.find(...)).filter(s => !!s && s.status === 'completed')
ContextSteps(w, contextSourceIds) ==
  LET found == [i \in 1..Len(contextSourceIds) |-> FindStep(w, contextSourceIds[i])]
      kept == SelectSeq(found, LAMBDA f : f # <<>> /\ f[1].status = "completed")
  IN  [i \in 1..Len(kept) |-> kept[i][1]]

\* workflow.filter(s => s.parentId === stepId)
ChildrenOf(w, stepId) == SelectSeq(w, LAMBDA s : s.parentId = stepId)

\* the two updates after the model answered: the step completed, then its only
\* child made pending when the workflow the handler closed over shows it
\* initial and not custom; kids are the children of the step in that workflow
Complete(w, kids, stepId, res) ==
  LET completed == SetStatusAndResult(w, stepId, "completed", res)
  IN  IF Len(kids) = 1 /\ kids[1].status = "initial" /\ ~kids[1].isCustom
      THEN SetStatus(completed, kids[1].id, "pending")
      ELSE completed

\* the loop of handleDeleteStep: queue.shift(), add, push the children
RECURSIVE IdsToDelete(_, _, _)
IdsToDelete(prevWorkflow, queue, ids) ==
  IF queue = <<>> THEN ids
  ELSE LET currentId == Head(queue)
           kids == ChildrenOf(prevWorkflow, currentId)
       IN  IdsToDelete(prevWorkflow,
                       Tail(queue) \o [i \in 1..Len(kids) |-> kids[i].id],
                       ids \cup {currentId})

DeleteStep(prevWorkflow, stepIdToDelete) ==
  LET ids == IdsToDelete(prevWorkflow, <<stepIdToDelete>>, {})
  IN  SelectSeq(prevWorkflow, LAMBDA s : s.id \notin ids)

\* what the dialog can submit: the ids ticked, in the order of ticking, among
\* the completed steps; at least one (the button is disabled otherwise)
ContextChoices(w) ==
  LET completedIds == {w[i].id : i \in {j \in 1..Len(w) : w[j].status = "completed"}}
  IN  {c \in UNION {[1..n -> completedIds] : n \in 1..MaxContextSources} :
         \A i, j \in 1..Len(c) : i # j => c[i] # c[j]}

ContextError == "Error: One or more context steps must be completed before running this step."

(***************************************************************************)
(* parseProcess as a state machine                                         *)
(***************************************************************************)
VARIABLES
  hasChildren,          \* rootActivity && rootActivity.children
  children,             \* rootActivity.children
  edges,                \* rootActivity.edges
  pc,                   \* "start", "traverse", "done"
  allParsedSteps,
  startNodes,
  failurePathStarters,
  visited,
  mainFlow,             \* the ids of the ParsedStep objects pushed, in order
  failureFlow,
  seed,                 \* seeds consumed by the two forEach loops so far
  currentFlow,          \* the flow the running traversal pushes to
  stack,                \* pending traverse calls
  jsonContents,         \* parseUCD: the batch of documents
  ucdPc,                \* parseUCD: "idle", "loop", "done"
  docIndex,             \* documents the loop has read
  allProcesses,
  componentNames,
  result,               \* what parseUCD returned
  fileContents,         \* parseJenkins: the batch of file contents
  jkPc,                 \* parseJenkins: "idle", "categorize", "done"
  fileIndex,            \* files the forEach has read
  bundle,
  jenkinsResult,        \* what parseJenkins returned
  ghaFileContents,      \* parseGitHubActions: the batch of file contents
  ghaPc,                \* parseGitHubActions: "idle", "categorize", "done"
  ghaFileIndex,         \* files the forEach has read
  ghaBundle,
  ghaResult,            \* what parseGitHubActions returned
  yamlContents,         \* parseYAML: the batch of file contents
  yamlPc,               \* parseYAML: "idle", "loop", "done"
  yamlIndex,            \* files the forEach has read
  yamlProcesses,
  yamlComponentName,
  yamlResult,           \* what parseYAML returned
  extractor,            \* the extractor a client calls repeatedly, or "none"
  calls,                \* calls made so far
  firstInput,           \* the batch of the first call
  firstResult,          \* what the first call returned
  parsedData,           \* stringifyParsedDataForPrompt: its argument
  strPc,                \* stringifyParsedDataForPrompt: "idle", "processes", "done"
  processIndex,         \* processes the forEach has written
  output,               \* the text written so far, as the sequence of its lines
  workflow,             \* ProcessView: the state workflow
  addStepModalState,    \* ProcessView: the state addStepModalState
  inFlight,             \* calls of handleGenerate that await the model, each with the
                        \* children of its step in the workflow it closed over
  generatedIds          \* calls of generateId so far

processVars == <<hasChildren, children, edges, pc, allParsedSteps, startNodes,
                 failurePathStarters, visited, mainFlow, failureFlow, seed, currentFlow, stack>>
ucdVars == <<jsonContents, ucdPc, docIndex, allProcesses, componentNames, result>>
jenkinsVars == <<fileContents, jkPc, fileIndex, bundle, jenkinsResult>>
ghaVars == <<ghaFileContents, ghaPc, ghaFileIndex, ghaBundle, ghaResult>>
yamlVars == <<yamlContents, yamlPc, yamlIndex, yamlProcesses, yamlComponentName, yamlResult>>
callVars == <<extractor, calls, firstInput, firstResult>>
extractorVars == <<jenkinsVars, ghaVars, yamlVars, callVars>>
stringifyVars == <<parsedData, strPc, processIndex, output>>
workflowVars == <<workflow, addStepModalState, inFlight, generatedIds>>
viewVars == <<stringifyVars, workflowVars>>
vars == <<processVars, ucdVars, extractorVars, viewVars>>

NoResult == [isNull |-> TRUE, componentName |-> <<>>, processes |-> <<>>]

UcdIdle ==
  /\ jsonContents = <<>>
  /\ ucdPc = "idle"
  /\ docIndex = 0
  /\ allProcesses = <<>>
  /\ componentNames = <<>>
  /\ result = NoResult

JenkinsIdle ==
  /\ fileContents = <<>>
  /\ jkPc = "idle"
  /\ fileIndex = 0
  /\ bundle = EmptyJenkinsBundle
  /\ jenkinsResult = NoResult

GhaIdle ==
  /\ ghaFileContents = <<>>
  /\ ghaPc = "idle"
  /\ ghaFileIndex = 0
  /\ ghaBundle = EmptyGitHubActionsBundle
  /\ ghaResult = NoResult

YamlIdle ==
  /\ yamlContents = <<>>
  /\ yamlPc = "idle"
  /\ yamlIndex = 0
  /\ yamlProcesses = <<>>
  /\ yamlComponentName = <<"YAML Pipeline">>
  /\ yamlResult = NoResult

\* a single call
NoRepeatedCall ==
  /\ extractor = "none"
  /\ calls = 0
  /\ firstInput = <<>>
  /\ firstResult = NoResult

ExtractorsIdle == JenkinsIdle /\ GhaIdle /\ YamlIdle /\ NoRepeatedCall

StringifyIdle ==
  /\ parsedData = NoResult
  /\ strPc = "idle"
  /\ processIndex = 0
  /\ output = <<>>

\* ProcessView is not mounted
WorkflowIdle ==
  /\ workflow = <<>>
  /\ addStepModalState = [isOpen |-> FALSE, parentId |-> Null]
  /\ inFlight = {}
  /\ generatedIds = 0

ViewIdle == StringifyIdle /\ WorkflowIdle

Init ==
  /\ hasChildren \in BOOLEAN
  /\ children \in (IF hasChildren THEN ChildrenLists ELSE {<<>>})
  /\ edges \in (IF hasChildren THEN EdgeLists ELSE {<<>>})
  /\ pc = "start"
  /\ allParsedSteps = <<>>
  /\ startNodes = <<>>
  /\ failurePathStarters = <<>>
  /\ visited = {}
  /\ mainFlow = <<>>
  /\ failureFlow = <<>>
  /\ seed = 0
  /\ currentFlow = "main"
  /\ stack = <<>>
  /\ UcdIdle
  /\ ExtractorsIdle
  /\ ViewIdle

\* no root activity or no children: both flows empty
EarlyReturn ==
  /\ pc = "start"
  /\ ~hasChildren
  /\ pc' = "done"
  /\ UNCHANGED <<ucdVars, extractorVars, viewVars>>
  /\ UNCHANGED <<hasChildren, children, edges, allParsedSteps, startNodes, failurePathStarters,
                 visited, mainFlow, failureFlow, seed, currentFlow, stack>>

\* the two passes, the failure starters and the start nodes
Annotate ==
  /\ pc = "start"
  /\ hasChildren
  /\ LET m == SecondPass(FirstPass(children, <<>>), edges)
     IN  /\ allParsedSteps' = m
         /\ failurePathStarters' = FailureStarters(m, <<>>)
         /\ startNodes' = StartNodesOf(m, edges)
  /\ pc' = "traverse"
  /\ UNCHANGED <<ucdVars, extractorVars, viewVars>>
  /\ UNCHANGED <<hasChildren, children, edges, visited, mainFlow, failureFlow, seed, currentFlow, stack>>

\* startNodes.forEach: the next start node
SeedMain ==
  /\ pc = "traverse"
  /\ stack = <<>>
  /\ seed < Len(startNodes)
  /\ seed' = seed + 1
  /\ currentFlow' = "main"
  /\ stack' = IF startNodes[seed + 1] \in visited THEN <<>> ELSE <<startNodes[seed + 1]>>
  /\ UNCHANGED <<ucdVars, extractorVars, viewVars>>
  /\ UNCHANGED <<hasChildren, children, edges, pc, allParsedSteps, startNodes, failurePathStarters,
                 visited, mainFlow, failureFlow>>

\* failurePathStarters.forEach: the next failure starter
SeedFailure ==
  /\ pc = "traverse"
  /\ stack = <<>>
  /\ seed >= Len(startNodes)
  /\ seed < Len(startNodes) + Len(failurePathStarters)
  /\ LET id == failurePathStarters[seed + 1 - Len(startNodes)]
     IN  stack' = IF id \in visited THEN <<>> ELSE <<id>>
  /\ seed' = seed + 1
  /\ currentFlow' = "failure"
  /\ UNCHANGED <<ucdVars, extractorVars, viewVars>>
  /\ UNCHANGED <<hasChildren, children, edges, pc, allParsedSteps, startNodes, failurePathStarters,
                 visited, mainFlow, failureFlow>>

\* one call of traverse
Traverse ==
  /\ pc = "traverse"
  /\ stack # <<>>
  /\ LET r == TraverseCall(allParsedSteps, visited,
                           IF currentFlow = "main" THEN mainFlow ELSE failureFlow, stack)
     IN  /\ visited' = r.visited
         /\ stack' = r.stack
         /\ IF currentFlow = "main"
            THEN mainFlow' = r.flow /\ UNCHANGED failureFlow
            ELSE failureFlow' = r.flow /\ UNCHANGED mainFlow
  /\ UNCHANGED <<ucdVars, extractorVars, viewVars>>
  /\ UNCHANGED <<hasChildren, children, edges, pc, allParsedSteps, startNodes, failurePathStarters,
                 seed, currentFlow>>

\* the sweep of the remaining unvisited steps, and the return
SweepRemaining ==
  /\ pc = "traverse"
  /\ stack = <<>>
  /\ seed = Len(startNodes) + Len(failurePathStarters)
  /\ LET r == Sweep(allParsedSteps, visited,
                    [mainFlow |-> mainFlow, failureFlow |-> failureFlow])
     IN  /\ mainFlow' = r.mainFlow
         /\ failureFlow' = r.failureFlow
  /\ pc' = "done"
  /\ UNCHANGED <<ucdVars, extractorVars, viewVars>>
  /\ UNCHANGED <<hasChildren, children, edges, allParsedSteps, startNodes, failurePathStarters,
                 visited, seed, currentFlow, stack>>

Next ==
  \/ EarlyReturn
  \/ Annotate
  \/ SeedMain
  \/ SeedFailure
  \/ Traverse
  \/ SweepRemaining

Spec == Init /\ [][Next]_vars

\* parseProcess on the inputs of Init, on the processes around a switch step,
\* on the processes with several edges out of one step and on the processes
\* with a step named Start
InitTraversal ==
  /\ hasChildren \in BOOLEAN
  /\ \/ /\ children \in (IF hasChildren THEN ChildrenLists ELSE {<<>>})
        /\ edges \in (IF hasChildren THEN EdgeLists ELSE {<<>>})
     \/ /\ hasChildren
        /\ children \in SwitchChildren
        /\ edges \in SwitchEdgeLists
     \/ /\ hasChildren
        /\ children \in ChildrenLists
        /\ edges \in SameSourceEdgeLists
     \/ /\ hasChildren
        /\ children \in StartNamedChildren
        /\ edges \in StartNamedEdgeLists
  /\ pc = "start"
  /\ allParsedSteps = <<>>
  /\ startNodes = <<>>
  /\ failurePathStarters = <<>>
  /\ visited = {}
  /\ mainFlow = <<>>
  /\ failureFlow = <<>>
  /\ seed = 0
  /\ currentFlow = "main"
  /\ stack = <<>>
  /\ UcdIdle
  /\ ExtractorsIdle
  /\ ViewIdle

SpecTraversal == InitTraversal /\ [][Next]_vars

(***************************************************************************)
(* parseUCD as a state machine: one step per document of the loop, then    *)
(* the de-duplication and the reconstruction of every process kept         *)
(***************************************************************************)
ProcessIdle ==
  /\ hasChildren = FALSE
  /\ children = <<>>
  /\ edges = <<>>
  /\ pc = "idle"
  /\ allParsedSteps = <<>>
  /\ startNodes = <<>>
  /\ failurePathStarters = <<>>
  /\ visited = {}
  /\ mainFlow = <<>>
  /\ failureFlow = <<>>
  /\ seed = 0
  /\ currentFlow = "main"
  /\ stack = <<>>

InitUCD ==
  /\ ProcessIdle
  /\ ViewIdle
  /\ ExtractorsIdle
  /\ \E n \in 0..MaxDocs :
       \E ds \in [1..n -> DocumentShapes] :
         jsonContents = [j \in 1..n |-> DocumentOf(j, ds[j])]
  /\ ucdPc = "loop"
  /\ docIndex = 0
  /\ allProcesses = <<>>
  /\ componentNames = <<>>
  /\ result = NoResult

NextDocument == jsonContents[docIndex + 1]
\* JSON.parse throws on the document, or reading data.name of null does
Throws(d) == d.json \in {"invalid", "null"}

\* an exception inside the loop: the catch block returns null
DocumentThrows ==
  /\ ucdPc = "loop"
  /\ docIndex < Len(jsonContents)
  /\ Throws(NextDocument)
  /\ result' = NoResult
  /\ ucdPc' = "done"
  /\ UNCHANGED <<jsonContents, docIndex, allProcesses, componentNames>>
  /\ UNCHANGED <<processVars, extractorVars, viewVars>>

\* a parsed document of the wrong shape: the warning, and continue
SkipDocument ==
  /\ ucdPc = "loop"
  /\ docIndex < Len(jsonContents)
  /\ ~Throws(NextDocument)
  /\ ~HasTemplateShape(NextDocument)
  /\ docIndex' = docIndex + 1
  /\ UNCHANGED <<jsonContents, ucdPc, allProcesses, componentNames, result>>
  /\ UNCHANGED <<processVars, extractorVars, viewVars>>

\* a component template: its name and its processes are kept
AcceptDocument ==
  /\ ucdPc = "loop"
  /\ docIndex < Len(jsonContents)
  /\ ~Throws(NextDocument)
  /\ HasTemplateShape(NextDocument)
  /\ componentNames' = Append(componentNames, NextDocument.name)
  /\ allProcesses' = allProcesses \o ProcessesOf(NextDocument)
  /\ docIndex' = docIndex + 1
  /\ UNCHANGED <<jsonContents, ucdPc, result>>
  /\ UNCHANGED <<processVars, extractorVars, viewVars>>

\* after the loop, no component name: the error thrown is caught, null is returned
NoValidDocument ==
  /\ ucdPc = "loop"
  /\ docIndex = Len(jsonContents)
  /\ componentNames = <<>>
  /\ result' = NoResult
  /\ ucdPc' = "done"
  /\ UNCHANGED <<jsonContents, docIndex, allProcesses, componentNames>>
  /\ UNCHANGED <<processVars, extractorVars, viewVars>>

\* after the loop: uniqueProcesses.map(parseProcess); componentName is the names
\* joined, kept here as their sequence
ReturnParsedData ==
  /\ ucdPc = "loop"
  /\ docIndex = Len(jsonContents)
  /\ componentNames # <<>>
  /\ LET unique == UniqueProcesses(allProcesses)
     IN  result' = [isNull |-> FALSE, componentName |-> componentNames,
                    processes |-> [i \in 1..Len(unique) |-> ParseUCDProcess(unique[i])]]
  /\ ucdPc' = "done"
  /\ UNCHANGED <<jsonContents, docIndex, allProcesses, componentNames>>
  /\ UNCHANGED <<processVars, extractorVars, viewVars>>

NextUCD ==
  \/ DocumentThrows
  \/ SkipDocument
  \/ AcceptDocument
  \/ NoValidDocument
  \/ ReturnParsedData

SpecUCD == InitUCD /\ [][NextUCD]_vars

(***************************************************************************)
(* parseJenkins as a state machine: one step per file of the forEach, then *)
(* the guard and the assembly of the single process                        *)
(***************************************************************************)
InitJenkins ==
  /\ ProcessIdle
  /\ ViewIdle
  /\ UcdIdle
  /\ GhaIdle
  /\ YamlIdle
  /\ NoRepeatedCall
  /\ \E n \in 0..MaxFiles : fileContents \in [1..n -> JenkinsContents]
  /\ jkPc = "categorize"
  /\ fileIndex = 0
  /\ bundle = EmptyJenkinsBundle
  /\ jenkinsResult = NoResult

Categorize ==
  /\ jkPc = "categorize"
  /\ fileIndex < Len(fileContents)
  /\ bundle' = CategorizeFile(bundle, fileContents[fileIndex + 1], fileIndex)
  /\ fileIndex' = fileIndex + 1
  /\ UNCHANGED <<fileContents, jkPc, jenkinsResult>>
  /\ UNCHANGED <<processVars, ucdVars, ghaVars, yamlVars, callVars, viewVars>>

\* 'No valid Jenkins files found in bundle'
ReturnNoJenkinsFiles ==
  /\ jkPc = "categorize"
  /\ fileIndex = Len(fileContents)
  /\ NoValidJenkinsFiles(bundle)
  /\ jenkinsResult' = NoResult
  /\ jkPc' = "done"
  /\ UNCHANGED <<fileContents, fileIndex, bundle>>
  /\ UNCHANGED <<processVars, ucdVars, ghaVars, yamlVars, callVars, viewVars>>

ReturnJenkinsPipeline ==
  /\ jkPc = "categorize"
  /\ fileIndex = Len(fileContents)
  /\ ~NoValidJenkinsFiles(bundle)
  /\ jenkinsResult' = [isNull |-> FALSE, componentName |-> <<"Jenkins Pipeline">>,
                       processes |-> <<ParseJenkinsBundle(bundle)>>]
  /\ jkPc' = "done"
  /\ UNCHANGED <<fileContents, fileIndex, bundle>>
  /\ UNCHANGED <<processVars, ucdVars, ghaVars, yamlVars, callVars, viewVars>>

NextJenkins ==
  \/ Categorize
  \/ ReturnNoJenkinsFiles
  \/ ReturnJenkinsPipeline

SpecJenkins == InitJenkins /\ [][NextJenkins]_vars

(***************************************************************************)
(* parseGitHubActions as a state machine: one step per file of the         *)
(* forEach, then the guard and the processes of the three dictionaries     *)
(***************************************************************************)
InitGitHubActions ==
  /\ ProcessIdle
  /\ ViewIdle
  /\ UcdIdle
  /\ JenkinsIdle
  /\ YamlIdle
  /\ NoRepeatedCall
  /\ \E n \in 0..MaxWorkflowFiles : ghaFileContents \in [1..n -> GhaContents]
  /\ ghaPc = "categorize"
  /\ ghaFileIndex = 0
  /\ ghaBundle = EmptyGitHubActionsBundle
  /\ ghaResult = NoResult

GhaCategorize ==
  /\ ghaPc = "categorize"
  /\ ghaFileIndex < Len(ghaFileContents)
  /\ ghaBundle' = GhaCategorizeFile(ghaBundle, ghaFileContents[ghaFileIndex + 1], ghaFileIndex)
  /\ ghaFileIndex' = ghaFileIndex + 1
  /\ UNCHANGED <<ghaFileContents, ghaPc, ghaResult>>
  /\ UNCHANGED <<processVars, ucdVars, jenkinsVars, yamlVars, callVars, viewVars>>

\* 'No valid GitHub Actions files found in bundle'
ReturnNoWorkflowFiles ==
  /\ ghaPc = "categorize"
  /\ ghaFileIndex = Len(ghaFileContents)
  /\ NoValidWorkflowFiles(ghaBundle)
  /\ ghaResult' = NoResult
  /\ ghaPc' = "done"
  /\ UNCHANGED <<ghaFileContents, ghaFileIndex, ghaBundle>>
  /\ UNCHANGED <<processVars, ucdVars, jenkinsVars, yamlVars, callVars, viewVars>>

ReturnWorkflowProcesses ==
  /\ ghaPc = "categorize"
  /\ ghaFileIndex = Len(ghaFileContents)
  /\ ~NoValidWorkflowFiles(ghaBundle)
  /\ ghaResult' = [isNull |-> FALSE, componentName |-> <<"GitHub Actions Pipeline">>,
                   processes |-> GhaProcesses(ghaBundle)]
  /\ ghaPc' = "done"
  /\ UNCHANGED <<ghaFileContents, ghaFileIndex, ghaBundle>>
  /\ UNCHANGED <<processVars, ucdVars, jenkinsVars, yamlVars, callVars, viewVars>>

NextGitHubActions ==
  \/ GhaCategorize
  \/ ReturnNoWorkflowFiles
  \/ ReturnWorkflowProcesses

SpecGitHubActions == InitGitHubActions /\ [][NextGitHubActions]_vars

(***************************************************************************)
(* parseYAML as a state machine: one step per file of the forEach, then    *)
(* the return                                                              *)
(***************************************************************************)
InitYAML ==
  /\ ProcessIdle
  /\ ViewIdle
  /\ UcdIdle
  /\ JenkinsIdle
  /\ GhaIdle
  /\ NoRepeatedCall
  /\ \E n \in 0..MaxFiles : yamlContents \in [1..n -> YamlDocs]
  /\ yamlPc = "loop"
  /\ yamlIndex = 0
  /\ yamlProcesses = <<>>
  /\ yamlComponentName = <<"YAML Pipeline">>
  /\ yamlResult = NoResult

\* the try block of the callback
YamlContent ==
  /\ yamlPc = "loop"
  /\ yamlIndex < Len(yamlContents)
  /\ yamlContents[yamlIndex + 1].kind # "throws"
  /\ yamlComponentName' = ComponentNameAfter(yamlComponentName, yamlContents[yamlIndex + 1], yamlIndex)
  /\ yamlProcesses' = Append(yamlProcesses, YamlProcess(yamlContents[yamlIndex + 1], yamlIndex))
  /\ yamlIndex' = yamlIndex + 1
  /\ UNCHANGED <<yamlContents, yamlPc, yamlResult>>
  /\ UNCHANGED <<processVars, ucdVars, jenkinsVars, ghaVars, callVars, viewVars>>

\* yaml.load throws: the catch block of the callback
YamlParseError ==
  /\ yamlPc = "loop"
  /\ yamlIndex < Len(yamlContents)
  /\ yamlContents[yamlIndex + 1].kind = "throws"
  /\ yamlProcesses' = Append(yamlProcesses, YamlErrorProcess(yamlContents[yamlIndex + 1], yamlIndex))
  /\ yamlIndex' = yamlIndex + 1
  /\ UNCHANGED <<yamlContents, yamlPc, yamlComponentName, yamlResult>>
  /\ UNCHANGED <<processVars, ucdVars, jenkinsVars, ghaVars, callVars, viewVars>>

ReturnYamlData ==
  /\ yamlPc = "loop"
  /\ yamlIndex = Len(yamlContents)
  /\ yamlResult' = [isNull |-> FALSE, componentName |-> yamlComponentName,
                    processes |-> yamlProcesses]
  /\ yamlPc' = "done"
  /\ UNCHANGED <<yamlContents, yamlIndex, yamlProcesses, yamlComponentName>>
  /\ UNCHANGED <<processVars, ucdVars, jenkinsVars, ghaVars, callVars, viewVars>>

NextYAML ==
  \/ YamlContent
  \/ YamlParseError
  \/ ReturnYamlData

SpecYAML == InitYAML /\ [][NextYAML]_vars

(***************************************************************************)
(* A client that calls one extractor up to MaxCalls times: a first batch,  *)
(* then any batch, then the first batch again.  Every call starts from the *)
(* locals its function body declares.                                      *)
(***************************************************************************)
InitCalls ==
  /\ ProcessIdle
  /\ ViewIdle
  /\ extractor \in Extractors
  /\ calls = 1
  /\ firstInput = <<>>
  /\ firstResult = NoResult
  /\ IF extractor = "parseUCD"
     THEN jsonContents \in UcdCallBatches /\ ucdPc = "loop"
     ELSE jsonContents = <<>> /\ ucdPc = "idle"
  /\ docIndex = 0
  /\ allProcesses = <<>>
  /\ componentNames = <<>>
  /\ result = NoResult
  /\ IF extractor = "parseJenkins"
     THEN fileContents \in BatchesOf(JenkinsContents) /\ jkPc = "categorize"
     ELSE fileContents = <<>> /\ jkPc = "idle"
  /\ fileIndex = 0
  /\ bundle = EmptyJenkinsBundle
  /\ jenkinsResult = NoResult
  /\ IF extractor = "parseGitHubActions"
     THEN ghaFileContents \in BatchesOf(GhaContents) /\ ghaPc = "categorize"
     ELSE ghaFileContents = <<>> /\ ghaPc = "idle"
  /\ ghaFileIndex = 0
  /\ ghaBundle = EmptyGitHubActionsBundle
  /\ ghaResult = NoResult
  /\ IF extractor = "parseYAML"
     THEN yamlContents \in BatchesOf(YamlDocs) /\ yamlPc = "loop"
     ELSE yamlContents = <<>> /\ yamlPc = "idle"
  /\ yamlIndex = 0
  /\ yamlProcesses = <<>>
  /\ yamlComponentName = <<"YAML Pipeline">>
  /\ yamlResult = NoResult

\* the batch of the next call: any batch after the first call, the first batch
\* again after that
NextBatches(batches) == IF calls = 1 THEN batches ELSE {firstInput}

\* the first call is remembered
Remember(input, returned) ==
  /\ calls' = calls + 1
  /\ firstInput' = (IF calls = 1 THEN input ELSE firstInput)
  /\ firstResult' = (IF calls = 1 THEN returned ELSE firstResult)
  /\ UNCHANGED extractor

CallParseUCD ==
  /\ extractor = "parseUCD"
  /\ ucdPc = "done"
  /\ calls < MaxCalls
  /\ jsonContents' \in NextBatches(UcdCallBatches)
  /\ ucdPc' = "loop"
  /\ docIndex' = 0
  /\ allProcesses' = <<>>
  /\ componentNames' = <<>>
  /\ result' = NoResult
  /\ Remember(jsonContents, result)
  /\ UNCHANGED <<processVars, jenkinsVars, ghaVars, yamlVars, viewVars>>

CallParseJenkins ==
  /\ extractor = "parseJenkins"
  /\ jkPc = "done"
  /\ calls < MaxCalls
  /\ fileContents' \in NextBatches(BatchesOf(JenkinsContents))
  /\ jkPc' = "categorize"
  /\ fileIndex' = 0
  /\ bundle' = NewJenkinsBundle(bundle)
  /\ jenkinsResult' = NoResult
  /\ Remember(fileContents, jenkinsResult)
  /\ UNCHANGED <<processVars, ucdVars, ghaVars, yamlVars, viewVars>>

CallParseGitHubActions ==
  /\ extractor = "parseGitHubActions"
  /\ ghaPc = "done"
  /\ calls < MaxCalls
  /\ ghaFileContents' \in NextBatches(BatchesOf(GhaContents))
  /\ ghaPc' = "categorize"
  /\ ghaFileIndex' = 0
  /\ ghaBundle' = EmptyGitHubActionsBundle
  /\ ghaResult' = NoResult
  /\ Remember(ghaFileContents, ghaResult)
  /\ UNCHANGED <<processVars, ucdVars, jenkinsVars, yamlVars, viewVars>>

CallParseYAML ==
  /\ extractor = "parseYAML"
  /\ yamlPc = "done"
  /\ calls < MaxCalls
  /\ yamlContents' \in NextBatches(BatchesOf(YamlDocs))
  /\ yamlPc' = "loop"
  /\ yamlIndex' = 0
  /\ yamlProcesses' = <<>>
  /\ yamlComponentName' = <<"YAML Pipeline">>
  /\ yamlResult' = NoResult
  /\ Remember(yamlContents, yamlResult)
  /\ UNCHANGED <<processVars, ucdVars, jenkinsVars, ghaVars, viewVars>>

NextCalls ==
  \/ DocumentThrows
  \/ SkipDocument
  \/ AcceptDocument
  \/ NoValidDocument
  \/ ReturnParsedData
  \/ Categorize
  \/ ReturnNoJenkinsFiles
  \/ ReturnJenkinsPipeline
  \/ GhaCategorize
  \/ ReturnNoWorkflowFiles
  \/ ReturnWorkflowProcesses
  \/ YamlContent
  \/ YamlParseError
  \/ ReturnYamlData
  \/ CallParseUCD
  \/ CallParseJenkins
  \/ CallParseGitHubActions
  \/ CallParseYAML

SpecCalls == InitCalls /\ [][NextCalls]_vars

(***************************************************************************)
(* stringifyParsedDataForPrompt as a state machine: the first line, one    *)
(* step per process of the forEach, the return                             *)
(***************************************************************************)
OthersIdle == ProcessIdle /\ UcdIdle /\ ExtractorsIdle

InitStringify ==
  /\ OthersIdle
  /\ WorkflowIdle
  /\ parsedData \in PromptData
  /\ strPc = "start"
  /\ processIndex = 0
  /\ output = <<>>

BeginOutput ==
  /\ strPc = "start"
  /\ output' = <<<<"Component Template: ", parsedData.componentName[1]>>, EmptyLine>>
  /\ strPc' = "processes"
  /\ UNCHANGED <<parsedData, processIndex>>
  /\ UNCHANGED <<processVars, ucdVars, extractorVars, workflowVars>>

StringifyProcess ==
  /\ strPc = "processes"
  /\ processIndex < Len(parsedData.processes)
  /\ output' = output \o ProcessText(parsedData.processes[processIndex + 1])
  /\ processIndex' = processIndex + 1
  /\ UNCHANGED <<parsedData, strPc>>
  /\ UNCHANGED <<processVars, ucdVars, extractorVars, workflowVars>>

ReturnOutput ==
  /\ strPc = "processes"
  /\ processIndex = Len(parsedData.processes)
  /\ strPc' = "done"
  /\ UNCHANGED <<parsedData, processIndex, output>>
  /\ UNCHANGED <<processVars, ucdVars, extractorVars, workflowVars>>

NextStringify ==
  \/ BeginOutput
  \/ StringifyProcess
  \/ ReturnOutput

SpecStringify == InitStringify /\ [][NextStringify]_vars

(***************************************************************************)
(* The generation workflow of ProcessView as a state machine: the clicks   *)
(* and the answers of the model, which arrive in any order                 *)
(***************************************************************************)
InitWorkflow ==
  /\ OthersIdle
  /\ StringifyIdle
  /\ workflow = GetInitialWorkflow
  /\ addStepModalState = [isOpen |-> FALSE, parentId |-> Null]
  /\ inFlight = {}
  /\ generatedIds = 0

\* the button Generate of a step; the workflow of the current render is the
\* one the handler closes over.  The test of the context sources runs before
\* the first await: either the step ends in error at once, or the call of
\* the model is under way with the step loading
HandleGenerate(stepId) ==
  /\ ~addStepModalState.isOpen
  /\ FindStep(workflow, stepId) # <<>>
  /\ FindStep(workflow, stepId)[1].status # "loading"
  /\ LET step == FindStep(workflow, stepId)[1]
         contextSteps == ContextSteps(workflow, step.contextSourceIds)
     IN  IF Len(contextSteps) # Len(step.contextSourceIds)
         THEN /\ workflow' = SetStatusAndResult(
                               SetStatusAndResult(workflow, stepId, "loading", ""),
                               stepId, "error", ContextError)
              /\ UNCHANGED inFlight
         ELSE /\ Cardinality(inFlight) < MaxInFlight
              /\ workflow' = SetStatusAndResult(workflow, stepId, "loading", "")
              /\ inFlight' = inFlight \cup {[stepId |-> stepId, children |-> ChildrenOf(workflow, stepId)]}
  /\ UNCHANGED <<addStepModalState, generatedIds>>
  /\ UNCHANGED <<processVars, ucdVars, extractorVars, stringifyVars>>

\* the model answered
GenerationResolved(g) ==
  /\ g \in inFlight
  /\ workflow' = Complete(workflow, g.children, g.stepId, "yaml")
  /\ inFlight' = inFlight \ {g}
  /\ UNCHANGED <<addStepModalState, generatedIds>>
  /\ UNCHANGED <<processVars, ucdVars, extractorVars, stringifyVars>>

\* the call of the model threw
GenerationRejected(g) ==
  /\ g \in inFlight
  /\ workflow' = SetStatusAndResult(workflow, g.stepId, "error", "Error: model")
  /\ inFlight' = inFlight \ {g}
  /\ UNCHANGED <<addStepModalState, generatedIds>>
  /\ UNCHANGED <<processVars, ucdVars, extractorVars, stringifyVars>>

\* the control under a completed step
HandleOpenAddStepModal(parentId) ==
  /\ ~addStepModalState.isOpen
  /\ generatedIds < MaxCustomSteps
  /\ FindStep(workflow, parentId) # <<>>
  /\ FindStep(workflow, parentId)[1].status = "completed"
  /\ addStepModalState' = [isOpen |-> TRUE, parentId |-> parentId]
  /\ UNCHANGED <<workflow, inFlight, generatedIds>>
  /\ UNCHANGED <<processVars, ucdVars, extractorVars, stringifyVars>>

CloseAddStepModal ==
  /\ addStepModalState.isOpen
  /\ addStepModalState' = [isOpen |-> FALSE, parentId |-> Null]
  /\ UNCHANGED <<workflow, inFlight, generatedIds>>
  /\ UNCHANGED <<processVars, ucdVars, extractorVars, stringifyVars>>

HandleAddCustomStep(contextIds) ==
  /\ addStepModalState.isOpen
  /\ addStepModalState.parentId # Null
  /\ workflow' = Append(workflow,
                        [id |-> GenerateId(generatedIds + 1),
                         parentId |-> addStepModalState.parentId,
                         status |-> "initial", result |-> "", isCustom |-> TRUE,
                         contextSourceIds |-> contextIds])
  /\ generatedIds' = generatedIds + 1
  /\ addStepModalState' = [isOpen |-> FALSE, parentId |-> Null]
  /\ UNCHANGED inFlight
  /\ UNCHANGED <<processVars, ucdVars, extractorVars, stringifyVars>>

\* the bin of a step
HandleDeleteStep(stepIdToDelete) ==
  /\ ~addStepModalState.isOpen
  /\ FindStep(workflow, stepIdToDelete) # <<>>
  /\ workflow' = DeleteStep(workflow, stepIdToDelete)
  /\ UNCHANGED <<addStepModalState, inFlight, generatedIds>>
  /\ UNCHANGED <<processVars, ucdVars, extractorVars, stringifyVars>>

StepIds == {workflow[i].id : i \in 1..Len(workflow)}

NextWorkflow ==
  \/ \E stepId \in StepIds : HandleGenerate(stepId)
  \/ \E g \in inFlight : GenerationResolved(g)
  \/ \E g \in inFlight : GenerationRejected(g)
  \/ \E parentId \in StepIds : HandleOpenAddStepModal(parentId)
  \/ CloseAddStepModal
  \/ \E contextIds \in ContextChoices(workflow) : HandleAddCustomStep(contextIds)
  \/ \E stepId \in StepIds : HandleDeleteStep(stepId)

SpecWorkflow == InitWorkflow /\ [][NextWorkflow]_vars

TypeOK ==
  /\ pc \in {"idle", "start", "traverse", "done"}
  /\ ucdPc \in {"idle", "loop", "done"}
  /\ jkPc \in {"idle", "categorize", "done"}
  /\ ghaPc \in {"idle", "categorize", "done"}
  /\ fileIndex \in 0..Len(fileContents)
  /\ ghaFileIndex \in 0..Len(ghaFileContents)
  /\ seed \in 0..(Len(startNodes) + Len(failurePathStarters))
  /\ docIndex \in 0..Len(jsonContents)

\* the state machine returns what the function returns
MachineAgreesWithFunction ==
  (pc = "done" /\ hasChildren) =>
     ParseProcess(children, edges) =
       [steps |-> allParsedSteps, mainFlow |-> mainFlow, failureFlow |-> failureFlow]

(***************************************************************************)
(* Vocabulary of the properties                                            *)
(***************************************************************************)
Done == pc = "done"
Count(seq, x) == Cardinality({i \in 1..Len(seq) : seq[i] = x})
Flows == mainFlow \o failureFlow
ChildNames == {children[i].name : i \in 1..Len(children)}
DistinctNames == \A i, j \in 1..Len(children) : children[i].name = children[j].name => i = j
FinishNames == {children[i].name : i \in {j \in 1..Len(children) : children[j].type = "finish"}}
NonFinishNames == ChildNames \ FinishNames
EdgeSet == Range(edges)
\* an edge both of whose ends are steps
Resolved(e) == e.to \in ChildNames /\ e.from \in ChildNames
\* the guard of some action of parseProcess holds
CanStep ==
  \/ pc = "start" /\ ~hasChildren
  \/ pc = "start" /\ hasChildren
  \/ pc = "traverse" /\ stack # <<>>
  \/ pc = "traverse" /\ stack = <<>>
       /\ seed <= Len(startNodes) + Len(failurePathStarters)
Visit(id) == id \in visited
Swept(id) == Done /\ id \in Range(Flows) /\ id \notin visited

(***************************************************************************)
(* C1  Flow completeness: when the steps have pairwise distinct names,     *)
(* every step that is not of type finish occurs exactly once in            *)
(* mainFlow ++ failureFlow once parseProcess has returned, whatever the    *)
(* edges are.                                                              *)
(***************************************************************************)
FlowCompleteness ==
  (Done /\ hasChildren /\ DistinctNames) =>
     \A n \in NonFinishNames : Count(Flows, n) = 1

\* a disconnected graph: one step traversed into each flow and one swept
FlowCompletenessWitness ==
  /\ Done
  /\ Len(children) = 3
  /\ FinishNames = {}
  /\ \E a, b, c \in ChildNames :
       /\ a \in Range(mainFlow) /\ Visit(a)
       /\ b \in Range(failureFlow) /\ Visit(b)
       /\ Swept(c)

(***************************************************************************)
(* C2  Terminal exclusion: no step of type finish is ever in mainFlow or   *)
(* in failureFlow.                                                         *)
(***************************************************************************)
TerminalExclusion ==
  \A n \in FinishNames : n \notin Range(mainFlow) /\ n \notin Range(failureFlow)

(***************************************************************************)
(* C3  Linear chain: Start->A, A->B, B->Finish, all SUCCESS, Finish of     *)
(* type finish, gives mainFlow = [A, B] and failureFlow = []; and for any  *)
(* chain of SUCCESS edges from a start edge to a finish step, over all the *)
(* steps, mainFlow is the chain without its finish step.                   *)
(***************************************************************************)
SuccessEdge(f, t) == [from |-> f, to |-> t, type |-> "SUCCESS", value |-> Null]

\* the edges are a start edge followed by at least one SUCCESS edge, each leaving the
\* step the one before enters, through every step once, the last one the only finish step
IsLinearChain ==
  /\ hasChildren
  /\ Len(edges) = Len(children)
  /\ Len(edges) >= 2
  /\ edges[1].from = Null
  /\ \A i \in 1..Len(edges) : edges[i].type = "SUCCESS" /\ edges[i].to \in ChildNames
  /\ \A i \in 2..Len(edges) : edges[i].from = edges[i - 1].to
  /\ \A i, j \in 1..Len(edges) : edges[i].to = edges[j].to => i = j
  /\ FinishNames = {edges[Len(edges)].to}

LinearChain ==
  /\ (Done /\ hasChildren
        /\ children = <<[name |-> "A", type |-> "plugin"], [name |-> "B", type |-> "plugin"],
                        [name |-> "C", type |-> "finish"]>>
        /\ edges = <<SuccessEdge(Null, "A"), SuccessEdge("A", "B"), SuccessEdge("B", "C")>>)
     => (mainFlow = <<"A", "B">> /\ failureFlow = <<>>)
  /\ (Done /\ IsLinearChain)
     => (mainFlow = [i \in 1..(Len(edges) - 1) |-> edges[i].to] /\ failureFlow = <<>>)
(***************************************************************************)
(* C4  Cycle safety: parseProcess terminates on every edge list, cyclic or *)
(* not, because traverse never enters a visited step; and the steps of a   *)
(* directed cycle of SUCCESS/ALWAYS/VALUE edges each occur once.           *)
(***************************************************************************)
NonFailureEdges == {e \in EdgeSet : e.type # "FAILURE" /\ Resolved(e)}
Succ(n) == {e.to : e \in {x \in NonFailureEdges : x.from = n}}

RECURSIVE Closure(_)
Closure(S) ==
  LET T == S \cup UNION {Succ(n) : n \in S}
  IN  IF T = S THEN S ELSE Closure(T)

OnCycle(n) == n \in Closure(Succ(n))
HasFailureEdge == \E e \in EdgeSet : e.type = "FAILURE"

\* the claim as stated: every step of a cycle that may be in a flow at all (C2)
\* occurs exactly once in mainFlow
CycleInMainFlow ==
  Done => \A n \in NonFinishNames : OnCycle(n) => Count(mainFlow, n) = 1

\* as amended: once in mainFlow ++ failureFlow, and in mainFlow when no edge is a
\* FAILURE edge; traverse pushes a step only when it marks it visited, so no step is
\* pushed twice and the pushes are at most the steps
CycleSafetyState ==
  /\ \A n \in ChildNames : Count(Flows, n) <= 1
  /\ visited \subseteq ChildNames
  /\ pc = "traverse" => Len(Flows) = Cardinality(visited)
  /\ Len(Flows) <= Len(allParsedSteps)
  /\ Done =>
       \A n \in NonFinishNames :
         OnCycle(n) => /\ Count(Flows, n) = 1
                       /\ ~HasFailureEdge => Count(mainFlow, n) = 1

\* what is left to do: the seeds not yet taken, the pending calls, and for every
\* unvisited step the calls its visit makes; 0 once parseProcess has returned
RECURSIVE SumWeights(_)
SumWeights(m) ==
  IF m = <<>> THEN 0
  ELSE (IF Head(m).id \in visited THEN 0 ELSE 3 + Len(Head(m).valuePaths))
       + SumWeights(Tail(m))

Remaining ==
  CASE pc = "start" -> 2 + 7 * Len(children) + Len(edges)
    [] pc = "traverse" ->
         1 + 2 * (Len(startNodes) + Len(failurePathStarters) - seed) + Len(stack)
           + SumWeights(allParsedSteps)
    [] OTHER -> 0

\* every step of parseProcess decreases Remaining, and there is a next step until it
\* has returned: it terminates
CycleSafety ==
  /\ []CycleSafetyState
  /\ [](~Done => CanStep)
  /\ [][Remaining' < Remaining]_vars

\* a cycle A -> B -> A entered from a start edge and traversed
CycleSafetyWitness ==
  /\ Done
  /\ SuccessEdge("A", "B") \in EdgeSet
  /\ SuccessEdge("B", "A") \in EdgeSet
  /\ \E e \in EdgeSet : e.from = Null
  /\ OnCycle("A") /\ OnCycle("B")
  /\ {"A", "B"} \subseteq visited
  /\ {"A", "B"} \subseteq NonFinishNames

(***************************************************************************)
(* C5  Failure branch: Start->A SUCCESS, A->B SUCCESS, A->C FAILURE gives  *)
(* mainFlow = [A, B], failureFlow = [C], A.onFailure = C; and a step that  *)
(* is entered by FAILURE edges only is in failureFlow, never in mainFlow.  *)
(***************************************************************************)
Plugin(n) == [name |-> n, type |-> "plugin"]
FailureEdge(f, t) == [from |-> f, to |-> t, type |-> "FAILURE", value |-> Null]

FailureBranchScenario ==
  (Done /\ hasChildren
     /\ children = <<Plugin("A"), Plugin("B"), Plugin("C")>>
     /\ edges = <<SuccessEdge(Null, "A"), SuccessEdge("A", "B"), FailureEdge("A", "C")>>)
  => /\ mainFlow = <<"A", "B">>
     /\ failureFlow = <<"C">>
     /\ allParsedSteps[1].onFailure = "C"

Incoming(n) == {e \in EdgeSet : e.to = n}

\* the claim as stated, over the edges of the input
FailureBranch ==
  /\ FailureBranchScenario
  /\ Done =>
       \A n \in NonFinishNames :
         (Incoming(n) # {} /\ \A e \in Incoming(n) : e.type = "FAILURE")
           => (n \notin Range(mainFlow) /\ n \in Range(failureFlow))

PathsOf(n) == allParsedSteps[MapIndex(allParsedSteps, n)].incomingPaths

\* as amended, over the incoming paths the annotation pass recorded: at least one,
\* all of type FAILURE, none from Start
FailureBranchRecorded ==
  /\ FailureBranchScenario
  /\ (Done /\ hasChildren) =>
       \A n \in NonFinishNames :
         (/\ PathsOf(n) # <<>>
          /\ \A p \in Range(PathsOf(n)) : p.type = "FAILURE" /\ p.source # "Start")
           => (n \notin Range(mainFlow) /\ n \in Range(failureFlow))

\* the scenario itself, returned
FailureBranchWitness ==
  /\ Done
  /\ children = <<Plugin("A"), Plugin("B"), Plugin("C")>>
  /\ edges = <<SuccessEdge(Null, "A"), SuccessEdge("A", "B"), FailureEdge("A", "C")>>
  /\ failureFlow = <<"C">>

(***************************************************************************)
(* C6  Start-set fallback: without any start edge, the start set is the    *)
(* steps that are not of type finish and are the 'to' of no edge, in       *)
(* children order; when there is exactly one, it is the only seed and the  *)
(* first step of mainFlow.                                                 *)
(***************************************************************************)
NoStartEdge ==
  /\ \A e \in EdgeSet : e.from # Null
  /\ \A i \in 1..Len(allParsedSteps) : ~HasStartPath(allParsedSteps[i])

NeverDestination(c) == c.type # "finish" /\ \A e \in EdgeSet : e.to # c.name
FallbackStarts ==
  LET starts == SelectSeq(children, NeverDestination)
  IN  [i \in 1..Len(starts) |-> starts[i].name]

StartSetFallback ==
  (pc # "start" /\ hasChildren /\ DistinctNames /\ NoStartEdge) =>
     /\ startNodes = FallbackStarts
     /\ (Done /\ Len(FallbackStarts) = 1) => mainFlow[1] = FallbackStarts[1]

\* no start edge, B entered from A: A alone seeds the traversal
StartSetFallbackWitness ==
  /\ Done
  /\ edges # <<>>
  /\ NoStartEdge
  /\ Len(children) >= 2
  /\ startNodes = <<"A">>
  /\ mainFlow[1] = "A"
  /\ "B" \in visited

(***************************************************************************)
(* C7  Dangling-edge tolerance: an edge whose 'to' names no step changes   *)
(* nothing: the flows and the annotated steps are those of the edge list   *)
(* without it.                                                             *)
(***************************************************************************)
Without(seq, i) == SubSeq(seq, 1, i - 1) \o SubSeq(seq, i + 1, Len(seq))
Returned == [steps |-> allParsedSteps, mainFlow |-> mainFlow, failureFlow |-> failureFlow]

DanglingEdgeTolerance ==
  (Done /\ hasChildren) =>
     \A i \in 1..Len(edges) :
       edges[i].to \notin ChildNames => ParseProcess(children, Without(edges, i)) = Returned

\* a dangling edge that leaves a step, next to an edge that is followed
DanglingEdgeWitness ==
  /\ Done
  /\ Len(children) = 2
  /\ \E i \in 1..Len(edges) : edges[i].to \notin ChildNames /\ edges[i].from \in ChildNames
  /\ \E i \in 1..Len(edges) : Resolved(edges[i])
  /\ Len(mainFlow) = 2

NonFinishInOrder ==
  LET IsNonFinish(c) == c.type # "finish"
      kept == SelectSeq(children, IsNonFinish)
  IN  [i \in 1..Len(kept) |-> kept[i].name]

UcdDone == ucdPc = "done"
\* a valid document: parseable, with a name and processes or genericProcesses
ValidDocument(d) == d.json = "object" /\ d.name # Null /\ (d.hasProcesses \/ d.hasGeneric)
ValidDocuments == SelectSeq(jsonContents, ValidDocument)

\* the processes of the documents in input order: of each document its processes,
\* then each generic process followed by its linked processes
RECURSIVE GenericThenLinked(_)
GenericThenLinked(gps) ==
  IF gps = <<>> THEN <<>>
  ELSE <<Head(gps)>> \o Head(gps).linkedProcesses \o GenericThenLinked(Tail(gps))

RECURSIVE Concatenated(_)
Concatenated(docs) ==
  IF docs = <<>> THEN <<>>
  ELSE Head(docs).processes \o GenericThenLinked(Head(docs).genericProcesses)
       \o Concatenated(Tail(docs))

FirstOfName(all, i) == \A j \in 1..(i - 1) : all[j].name # all[i].name

(***************************************************************************)
(* C9  Per-document tolerance: parseUCD returns null only when no document *)
(* of the batch is valid; with a valid document it returns the ParsedData  *)
(* of the valid documents, whatever the other documents are.               *)
(***************************************************************************)
PerDocumentTolerance ==
  UcdDone =>
    /\ result.isNull <=> ValidDocuments = <<>>
    /\ ~result.isNull =>
         result.componentName = [i \in 1..Len(ValidDocuments) |-> ValidDocuments[i].name]

(***************************************************************************)
(* C10 De-duplication: no two returned processes have the same name, and   *)
(* every returned process is built from the first process of its name in   *)
(* the concatenated list, which has a root activity.                       *)
(***************************************************************************)
Deduplicated ==
  (UcdDone /\ ~result.isNull) =>
    LET all == Concatenated(ValidDocuments)
        out == result.processes
    IN  /\ \A k, l \in 1..Len(out) : out[k].name = out[l].name => k = l
        /\ \A k \in 1..Len(out) :
             \E i \in 1..Len(all) :
               /\ all[i].name = out[k].name
               /\ FirstOfName(all, i)
               /\ all[i].hasRoot
               /\ out[k] = ParseUCDProcess(all[i])

\* p occurs with a root activity in both documents and is returned once, from the
\* first; q occurs first without a root activity
DeduplicatedWitness ==
  /\ UcdDone
  /\ ~result.isNull
  /\ Len(ValidDocuments) = 2
  /\ LET all == Concatenated(ValidDocuments)
     IN  /\ \E i, j \in 1..Len(all) :
               /\ i < j
               /\ all[i].name = "p" /\ all[j].name = "p"
               /\ all[i].hasRoot /\ all[j].hasRoot
               /\ all[i].description[1] = 1 /\ all[j].description[1] = 2
         /\ \E i \in 1..Len(all) : all[i].name = "q" /\ ~all[i].hasRoot
  /\ \E k \in 1..Len(result.processes) :
       result.processes[k].name = "p" /\ Len(result.processes[k].mainFlow) > 0

(***************************************************************************)
(* Vocabulary of the properties of parseJenkins                            *)
(***************************************************************************)
JkDone == jkPc = "done"
\* the files of the batch that were given type t, in input order
Classified(t) == SelectSeq(bundle.allFiles, LAMBDA f : f.type = t)
JkMainFlow == jenkinsResult.processes[1].mainFlow
StepIf(found, id) == IF found # <<>> THEN <<id>> ELSE <<>>

(***************************************************************************)
(* C11  Script-based extractor shape: whenever parseJenkins returns        *)
(* non-null there is exactly one process, its failureFlow is empty and its *)
(* mainFlow is the bundle-summary step, then the Jenkinsfile step if a     *)
(* Jenkinsfile was found, then the config.xml step, then the build.xml     *)
(* step if those were found, then one step per groovy file in input order. *)
(***************************************************************************)
ScriptExtractorShape ==
  (JkDone /\ ~jenkinsResult.isNull) =>
    /\ Len(jenkinsResult.processes) = 1
    /\ jenkinsResult.processes[1].failureFlow = <<>>
    /\ LET head == <<<<"bundle_summary">>>>
                     \o StepIf(Classified("jenkinsfile"), <<"jenkinsfile">>)
                     \o StepIf(Classified("config.xml"), <<"config_xml">>)
                     \o StepIf(Classified("build.xml"), <<"build_xml">>)
           groovy == Classified("groovy")
       IN  /\ Len(JkMainFlow) = Len(head) + Len(groovy)
           /\ \A i \in 1..Len(head) : JkMainFlow[i].id = head[i]
           /\ \A k \in 1..Len(groovy) :
                /\ JkMainFlow[Len(head) + k].name = <<"Shared Library: ">> \o groovy[k].fileName
                /\ JkMainFlow[Len(head) + k].scriptBody = <<groovy[k].content>>

\* a groovy file, a build.xml and a config.xml given in that order
ScriptExtractorShapeWitness ==
  /\ JkDone
  /\ ~jenkinsResult.isNull
  /\ [i \in 1..Len(bundle.allFiles) |-> bundle.allFiles[i].type] = <<"groovy", "build.xml", "config.xml">>
  /\ Ids(JkMainFlow) = <<<<"bundle_summary">>, <<"config_xml">>, <<"build_xml">>,
                         <<"groovy_", "SharedLibrary_", "1", "_groovy">>>>

(***************************************************************************)
(* C12  One step per file: whenever parseJenkins returns non-null, the     *)
(* number of config.xml and build.xml steps of mainFlow is the number of   *)
(* files classified config.xml or build.xml, the number of groovy steps is *)
(* the number of files classified groovy, and with at most one Jenkinsfile *)
(* mainFlow has one step per recognized file after the summary step.       *)
(***************************************************************************)
StepsWithId(ids) == SelectSeq(JkMainFlow, LAMBDA s : s.id \in ids)
GroovySteps == SelectSeq(JkMainFlow, LAMBDA s : s.id[1] = "groovy_")

OneStepPerFile ==
  (JkDone /\ ~jenkinsResult.isNull) =>
    /\ Len(StepsWithId({<<"config_xml">>, <<"build_xml">>}))
         = Len(Classified("config.xml")) + Len(Classified("build.xml"))
    /\ Len(GroovySteps) = Len(Classified("groovy"))
    /\ Len(Classified("jenkinsfile")) <= 1 =>
         Len(JkMainFlow) = 1 + Len(Classified("jenkinsfile")) + Len(Classified("config.xml"))
                             + Len(Classified("build.xml")) + Len(Classified("groovy"))

(***************************************************************************)
(* C13  Null only when nothing is recognized: parseJenkins returns null    *)
(* only when no file of the batch was classified jenkinsfile, config.xml,  *)
(* build.xml or groovy; a batch with at least one such file yields a       *)
(* non-null ParsedData.                                                    *)
(***************************************************************************)
RecognizedTypes == {"jenkinsfile", "config.xml", "build.xml", "groovy"}
SomeRecognized == \E i \in 1..Len(bundle.allFiles) : bundle.allFiles[i].type \in RecognizedTypes

NullOnlyWhenNothingRecognized ==
  JkDone => (jenkinsResult.isNull <=> ~SomeRecognized)

(***************************************************************************)
(* C14  Empty batch: parseJenkins called with zero files returns null and  *)
(* fabricates no process; more generally a batch in which every file is    *)
(* classified 'unknown' returns null.                                      *)
(***************************************************************************)
AllUnknown == \A i \in 1..Len(bundle.allFiles) : bundle.allFiles[i].type = "unknown"

EmptyBatchNull ==
  /\ (JkDone /\ fileContents = <<>>) => (jenkinsResult.isNull /\ jenkinsResult.processes = <<>>)
  /\ (JkDone /\ AllUnknown) => (jenkinsResult.isNull /\ jenkinsResult.processes = <<>>)

\* two files without any marker
EmptyBatchNullWitness ==
  /\ JkDone
  /\ Len(fileContents) = 2
  /\ Len(bundle.allFiles) = 2
  /\ AllUnknown
  /\ jenkinsResult.isNull

(***************************************************************************)
(* C15  Detection priority: the tag parseJenkins gives a file              *)
(* (extractFileName, then detectFileType) is the first match of a total    *)
(* cascade in the order jenkinsfile, config.xml, build.xml, groovy, xml,   *)
(* unknown: every file gets exactly one of these tags, a file named after  *)
(* 'jenkinsfile' is tagged jenkinsfile even when its content also looks    *)
(* like groovy or XML, and a file matching nothing is tagged 'unknown'.    *)
(***************************************************************************)
MentionsJenkinsfile(c) == "jenkinsfile" \in c
LooksLikeConfigXml(c) == "config.xml" \in c \/ "<project>" \in c
LooksLikeBuildXml(c) == "build.xml" \in c \/ "<project name=" \in c
LooksLikeGroovy(c) == "def " \in c \/ "import " \in c \/ "class " \in c \/ "@NonCPS" \in c
LooksLikeXml(c) == "<?xml" \in c \/ "<project>" \in c

FirstMatch(c) ==
  CASE MentionsJenkinsfile(c) -> "jenkinsfile"
    [] ~MentionsJenkinsfile(c) /\ LooksLikeConfigXml(c) -> "config.xml"
    [] ~MentionsJenkinsfile(c) /\ ~LooksLikeConfigXml(c) /\ LooksLikeBuildXml(c) -> "build.xml"
    [] ~MentionsJenkinsfile(c) /\ ~LooksLikeConfigXml(c) /\ ~LooksLikeBuildXml(c)
         /\ LooksLikeGroovy(c) -> "groovy"
    [] ~MentionsJenkinsfile(c) /\ ~LooksLikeConfigXml(c) /\ ~LooksLikeBuildXml(c)
         /\ ~LooksLikeGroovy(c) /\ LooksLikeXml(c) -> "xml"
    [] OTHER -> "unknown"

DetectionPriority ==
  \A i \in 1..Len(bundle.allFiles) :
    LET f == bundle.allFiles[i]
    IN  /\ f.type \in JenkinsFileTypes
        /\ f.type = FirstMatch(f.content)
        /\ f.fileName = <<"Jenkinsfile">> => f.type = "jenkinsfile"
        /\ f.content = {} => f.type = "unknown"

\* a Jenkinsfile that defines a function, and a file without any marker
DetectionPriorityWitness ==
  /\ JkDone
  /\ \E i \in 1..Len(bundle.allFiles) :
       /\ bundle.allFiles[i].content = {"jenkinsfile", "def "}
       /\ bundle.allFiles[i].type = "jenkinsfile"
  /\ \E i \in 1..Len(bundle.allFiles) :
       /\ bundle.allFiles[i].content = {}
       /\ bundle.allFiles[i].type = "unknown"

(***************************************************************************)
(* C16  Generic XML routing: a file that matches no earlier rule and whose *)
(* content starts with an XML prolog or contains the generic project       *)
(* marker (tag 'xml') is routed to job-configuration XML when it lacks     *)
(* build-script markers and to build-configuration XML otherwise, so that  *)
(* the process has a config.xml or build.xml step for it.                  *)
(***************************************************************************)
GenericXmlRouted ==
  JkDone =>
    \A i \in 1..Len(bundle.allFiles) :
      bundle.allFiles[i].type = "xml" =>
        /\ ~jenkinsResult.isNull
        /\ IF LooksLikeBuildXml(bundle.allFiles[i].content)
           THEN StepsWithId({<<"build_xml">>}) # <<>>
           ELSE StepsWithId({<<"config_xml">>}) # <<>>

(***************************************************************************)
(* Vocabulary of the properties of parseGitHubActions                      *)
(***************************************************************************)
GhaDone == ghaPc = "done"
WorkflowLikeTypes == {"workflow", "composite-action", "reusable-workflow"}
WorkflowLikeFiles == SelectSeq(ghaBundle.allFiles, LAMBDA f : f.type \in WorkflowLikeTypes)

(***************************************************************************)
(* C17  Process count of the YAML-workflow extractor: whenever             *)
(* parseGitHubActions returns non-null, processes[0] is the bundle-summary *)
(* process and the others are exactly one per input file classified        *)
(* workflow, composite-action or reusable-workflow, also when two files    *)
(* carry the same workflow name.                                           *)
(***************************************************************************)
OneProcessPerWorkflowFile ==
  (GhaDone /\ ~ghaResult.isNull) =>
    /\ ghaResult.processes[1].name = <<"Bundle Summary">>
    /\ ghaResult.processes[1].mainFlow[1].id = <<"bundle_summary">>
    /\ Len(ghaResult.processes) = 1 + Len(WorkflowLikeFiles)

(***************************************************************************)
(* C18  Raw text attached once: in every workflow, composite-action or     *)
(* reusable-workflow process of parseGitHubActions the full text of the    *)
(* document is the scriptBody of exactly one step, the marker step at      *)
(* mainFlow[0]; a job-marker step carries no scriptBody and every other    *)
(* step carries its own run script or nothing.                             *)
(***************************************************************************)
\* the run scripts of the document in document order, with <<>> at the place
\* of every job: what the steps after the marker step may carry
RunsOfSteps(steps) ==
  IF steps = <<>> THEN <<>> ELSE [i \in 1..Len(steps[1]) |-> steps[1][i].run]

RECURSIVE RunsOfJobs(_)
RunsOfJobs(entries) ==
  IF entries = <<>> THEN <<>>
  ELSE <<<<>>>> \o RunsOfSteps(entries[1].steps) \o RunsOfJobs(Tail(entries))

OwnRuns(content, marker) ==
  IF marker = "action_"
  THEN (IF content.yaml.runs = <<>> THEN <<>> ELSE RunsOfSteps(content.yaml.runs[1].steps))
  ELSE (IF content.yaml.jobs = <<>> THEN <<>> ELSE RunsOfJobs(content.yaml.jobs[1]))

RawTextAttachedOnce ==
  (GhaDone /\ ~ghaResult.isNull) =>
    \A p \in 2..Len(ghaResult.processes) :
      LET flow == ghaResult.processes[p].mainFlow
      IN  /\ flow[1].id[1] \in {"workflow_", "action_", "reusable_"}
          /\ Len(flow[1].scriptBody) = 1
          /\ \E i \in 1..Len(ghaFileContents) : ghaFileContents[i] = flow[1].scriptBody[1]
          /\ Len(flow) = 1 + Len(OwnRuns(flow[1].scriptBody[1], flow[1].id[1]))
          /\ \A k \in 2..Len(flow) :
               /\ flow[k].id[1] \in {"job_", "step_"}
               /\ flow[k].id[1] = "job_" => flow[k].scriptBody = <<>>
               /\ flow[k].scriptBody = OwnRuns(flow[1].scriptBody[1], flow[1].id[1])[k - 1]

\* a workflow with one job of two steps, an action and a script
RawTextAttachedOnceWitness ==
  /\ GhaDone
  /\ ~ghaResult.isNull
  /\ \E p \in 2..Len(ghaResult.processes) :
       LET flow == ghaResult.processes[p].mainFlow
       IN  /\ Len(flow) = 4
           /\ flow[1].id[1] = "workflow_"
           /\ flow[1].scriptBody = <<ghaFileContents[1]>>
           /\ flow[2].id = <<"job_", "build">>
           /\ flow[3].scriptBody = <<>>
           /\ flow[4].id = <<"step_", "build", "_", "1">>
           /\ flow[4].scriptBody = <<"make">>

(***************************************************************************)
(* C19  Workflow recognition: a file is classified workflow only if its    *)
(* parsed content has both an `on` and a `jobs` field, reusable-workflow   *)
(* when in addition the trigger contains `workflow_call`, and              *)
(* composite-action only if runs.using = composite; a file whose YAML is   *)
(* malformed is tagged 'unknown' and excluded without aborting the batch;  *)
(* a batch in which no file satisfies a recognition rule returns null.     *)
(***************************************************************************)
HasTriggerAndJobs(c) == c.yaml.kind = "mapping" /\ c.yaml.on # "absent" /\ c.yaml.jobs # <<>>
HasWorkflowCall(c) == c.yaml.on \in {"workflow_call:", "workflow_call: {inputs}"}
RunsComposite(c) == c.yaml.kind = "mapping" /\ c.yaml.runs # <<>> /\ c.yaml.runs[1].using = "composite"
Recognized(c) == ~YamlThrows(c) /\ (HasTriggerAndJobs(c) \/ RunsComposite(c))

WorkflowRecognition ==
  /\ \A i \in 1..Len(ghaBundle.allFiles) :
       LET f == ghaBundle.allFiles[i]
       IN  /\ f.type = "workflow" => (HasTriggerAndJobs(f.content) /\ ~HasWorkflowCall(f.content))
           /\ f.type = "reusable-workflow" => (HasTriggerAndJobs(f.content) /\ HasWorkflowCall(f.content))
           /\ f.type = "composite-action" => RunsComposite(f.content)
           /\ YamlThrows(f.content) => f.type = "unknown"
  /\ (GhaDone /\ \A i \in 1..Len(ghaFileContents) : ~Recognized(ghaFileContents[i]))
       => ghaResult.isNull

(***************************************************************************)
(* C20  Determinism: for each extractor (parseUCD, parseJenkins,           *)
(* parseGitHubActions, parseYAML) a call on the batch of an earlier call   *)
(* returns a structurally identical result (null or not, componentName,    *)
(* processes and steps in the same order with the same fields), whatever   *)
(* call was made in between: no state is carried from one call to the next.*)
(***************************************************************************)
Determinism ==
  /\ (extractor = "parseUCD" /\ calls >= 2 /\ ucdPc = "done" /\ jsonContents = firstInput)
       => result = firstResult
  /\ (extractor = "parseJenkins" /\ calls >= 2 /\ jkPc = "done" /\ fileContents = firstInput)
       => jenkinsResult = firstResult
  /\ (extractor = "parseGitHubActions" /\ calls >= 2 /\ ghaPc = "done" /\ ghaFileContents = firstInput)
       => ghaResult = firstResult
  /\ (extractor = "parseYAML" /\ calls >= 2 /\ yamlPc = "done" /\ yamlContents = firstInput)
       => yamlResult = firstResult

\* the third call of parseJenkins, on the batch of the first, has returned a process
DeterminismWitness ==
  /\ extractor = "parseJenkins"
  /\ calls = MaxCalls
  /\ jkPc = "done"
  /\ fileContents = firstInput
  /\ ~jenkinsResult.isNull
  /\ jenkinsResult = firstResult

(***************************************************************************)
(* Properties of stringifyParsedDataForPrompt                              *)
(***************************************************************************)
StrDone == strPc = "done"

IsHeading(line) ==
  /\ line # <<>>
  /\ line[1] \in {"## Process: ", "### ", "#### Step: \""}

\* the outline the data prescribes: per process its heading, then the main
\* section when the main flow has steps, then the failure section likewise,
\* each section with one step heading per step in flow order
StepHeadings(flow) == [i \in 1..Len(flow) |-> <<"#### Step: \"", flow[i].name, "\"">>]

SectionOutline(flowName, flow) ==
  IF flow = <<>> THEN <<>> ELSE <<<<"### ", flowName>>>> \o StepHeadings(flow)

ProcessOutline(process) ==
  <<<<"## Process: ", process.name>>>>
  \o SectionOutline("Main Execution Flow", process.mainFlow)
  \o SectionOutline("Failure Handling Flow", process.failureFlow)

DataOutline(data) ==
  Flatten([i \in 1..Len(data.processes) |-> ProcessOutline(data.processes[i])])

\* the steps of the data in the order of the outline
StepsInOrder(data) ==
  Flatten([i \in 1..Len(data.processes) |->
             data.processes[i].mainFlow \o data.processes[i].failureFlow])

\* the positions of the step headings of the output, in increasing order
RECURSIVE PositionsFrom(_, _)
PositionsFrom(text, i) ==
  IF i > Len(text) THEN <<>>
  ELSE (IF text[i] # <<>> /\ text[i][1] = "#### Step: \"" THEN <<i>> ELSE <<>>)
       \o PositionsFrom(text, i + 1)

\* the lines of the k-th step block: from after its heading up to the next heading
\* of any kind
RECURSIVE BlockEnd(_, _)
BlockEnd(text, i) ==
  IF i > Len(text) \/ IsHeading(text[i]) THEN i - 1 ELSE BlockEnd(text, i + 1)

Block(text, k) ==
  LET from == PositionsFrom(text, 1)[k]
  IN SubSeq(text, from + 1, BlockEnd(text, from + 1))

Fenced(block, script) ==
  \E i \in 1..Len(block) :
    /\ block[i] = Fence
    /\ i + Len(script) + 1 <= Len(block)
    /\ SubSeq(block, i + 1, i + Len(script)) = script
    /\ block[i + Len(script) + 1] = Fence

\* C21: the output lists the processes in order, for each process the main
\* section before the failure section, a section only when its flow has
\* steps, one block per step in flow order, and every non-empty scriptBody
\* stands unchanged between two delimiter lines inside the block of its step.
StringifiedInOrder ==
  StrDone =>
    /\ SelectSeq(output, IsHeading) = DataOutline(parsedData)
    /\ \A k \in 1..Len(StepsInOrder(parsedData)) :
         TruthyText(StepsInOrder(parsedData)[k].scriptBody)
           => Fenced(Block(output, k), StepsInOrder(parsedData)[k].scriptBody[1])

\* two processes, the first with both sections, the second without a main
\* section, and a script that itself holds a delimiter line
StringifiedInOrderWitness ==
  /\ StrDone
  /\ Len(parsedData.processes) = 2
  /\ parsedData.processes[1].name # parsedData.processes[2].name
  /\ Len(parsedData.processes[1].mainFlow) = 2
  /\ parsedData.processes[1].mainFlow[1].name # parsedData.processes[1].mainFlow[2].name
  /\ parsedData.processes[1].failureFlow # <<>>
  /\ parsedData.processes[2].mainFlow = <<>>
  /\ parsedData.processes[2].failureFlow # <<>>
  /\ \E k \in 1..2 :
       /\ TruthyText(parsedData.processes[1].mainFlow[k].scriptBody)
       /\ \E i \in 1..Len(parsedData.processes[1].mainFlow[k].scriptBody[1]) :
            parsedData.processes[1].mainFlow[k].scriptBody[1][i] = Fence

(***************************************************************************)
(* C22  Step id uniqueness: in every process an extractor returns          *)
(* (parseUCD, parseJenkins, parseGitHubActions) the ids of the steps of    *)
(* mainFlow followed by failureFlow are pairwise distinct, also for        *)
(* workflow files whose job ids differ only in case.                       *)
(***************************************************************************)
DistinctStepIds(process) ==
  LET steps == process.mainFlow \o process.failureFlow
  IN  \A i, j \in 1..Len(steps) : i # j => steps[i].id # steps[j].id

AllDistinctStepIds(returned) ==
  \A i \in 1..Len(returned.processes) : DistinctStepIds(returned.processes[i])

StepIdsDistinct ==
  /\ ucdPc = "done" => AllDistinctStepIds(result)
  /\ JkDone => AllDistinctStepIds(jenkinsResult)
  /\ GhaDone => AllDistinctStepIds(ghaResult)

(***************************************************************************)
(* Properties of the annotation pass of parseProcess                       *)
(***************************************************************************)
Annotated == hasChildren /\ pc \in {"traverse", "done"}
IsStepId(id) == \E k \in 1..Len(children) : children[k].name = id
\* an edge between two steps, both of them children
Connects(e) == e.from # Null /\ IsStepId(e.from) /\ IsStepId(e.to)
\* the positions of the edges of type T that leave the step id
EdgesFrom(id, T) ==
  {i \in 1..Len(edges) : Connects(edges[i]) /\ edges[i].from = id /\ edges[i].type = T}
LastOf(S) == CHOOSE i \in S : \A j \in S : j <= i
LastTarget(id, T) ==
  IF EdgesFrom(id, T) = {} THEN Null ELSE edges[LastOf(EdgesFrom(id, T))].to
\* the VALUE edges that leave the step id, in input order
ValueEdgesFrom(id) ==
  SelectSeq(edges, LAMBDA e : Connects(e) /\ e.from = id /\ e.type = "VALUE")

(***************************************************************************)
(* C23  Last edge wins: after the annotation pass, onSuccess, onFailure    *)
(* and onAlways of every step are the target of the last edge in input     *)
(* order of that type between that step and another child (unset when      *)
(* there is none); the VALUE edges are appended to valuePaths in input     *)
(* order, their value defaulting to 'default'; the target of every such    *)
(* edge, overwritten or not, keeps its incomingPaths entry.                *)
(***************************************************************************)
LastEdgeWins ==
  Annotated =>
    /\ \A k \in 1..Len(allParsedSteps) :
         LET s == allParsedSteps[k]
         IN  /\ s.onSuccess = LastTarget(s.id, "SUCCESS")
             /\ s.onFailure = LastTarget(s.id, "FAILURE")
             /\ s.onAlways = LastTarget(s.id, "ALWAYS")
             /\ Len(s.valuePaths) = Len(ValueEdgesFrom(s.id))
             /\ \A v \in 1..Len(s.valuePaths) :
                  /\ s.valuePaths[v].destination = ValueEdgesFrom(s.id)[v].to
                  /\ s.valuePaths[v].value =
                       (IF ValueEdgesFrom(s.id)[v].value = Null THEN "default"
                        ELSE ValueEdgesFrom(s.id)[v].value)
    /\ \A i \in 1..Len(edges) :
         Connects(edges[i]) =>
           LET t == allParsedSteps[MapIndex(allParsedSteps, edges[i].to)]
           IN  /\ \E q \in 1..Len(t.incomingPaths) :
                    t.incomingPaths[q] = [source |-> edges[i].from, type |-> edges[i].type,
                                          value |-> edges[i].value]
               /\ Len(t.incomingPaths) >=
                    Cardinality({j \in 1..Len(edges) : Connects(edges[j]) /\ edges[j].to = t.id})

\* two SUCCESS edges leave A: the second overwrote the first, both targets
\* keep their entry
LastEdgeWinsWitness ==
  /\ Annotated
  /\ Len(edges) >= 2
  /\ \E i, j \in 1..Len(edges) :
       /\ i < j
       /\ Connects(edges[i]) /\ Connects(edges[j])
       /\ edges[i].from = "A" /\ edges[j].from = "A"
       /\ edges[i].type = "SUCCESS" /\ edges[j].type = "SUCCESS"
       /\ edges[i].to = "B" /\ edges[j].to = "C"
       /\ allParsedSteps[1].onSuccess = "C"
       /\ allParsedSteps[2].incomingPaths # <<>>

(***************************************************************************)
(* Depth-first pre-order, defined by recursion on the annotated steps       *)
(***************************************************************************)
HasStep(id) == MapIndex(allParsedSteps, id) # 0
\* what a step leads to: onSuccess, onAlways, then the valuePaths destinations
Successors(id) ==
  LET s == allParsedSteps[MapIndex(allParsedSteps, id)]
  IN  <<s.onSuccess, s.onAlways>> \o Destinations(s.valuePaths)

RECURSIVE PreOrder(_, _), PreOrderAll(_, _)
\* the flow after visiting id and what it leads to, the steps of flow being
\* the visited ones
PreOrder(id, flow) ==
  IF id = Null \/ ~HasStep(id) \/ id \in Range(flow) THEN flow
  ELSE PreOrderAll(Successors(id), Append(flow, id))
PreOrderAll(ids, flow) ==
  IF ids = <<>> THEN flow ELSE PreOrderAll(Tail(ids), PreOrder(Head(ids), flow))

PositionIn(seq, x) == CHOOSE i \in 1..Len(seq) : seq[i] = x
NamesInOrder == [k \in 1..Len(children) |-> children[k].name]
InChildrenOrder(ids) ==
  \A i, j \in 1..Len(ids) :
    i < j => PositionIn(NamesInOrder, ids[i]) < PositionIn(NamesInOrder, ids[j])

\* a is a switch step that leads to b and then to c by its valuePaths and to
\* nothing else, the main traversal reaches it, no edge is a FAILURE edge and
\* b and c are entered from a only
SwitchScenario(a, b, c) ==
  /\ HasStep(a) /\ HasStep(b) /\ HasStep(c)
  /\ a # b /\ b # c /\ a # c
  /\ Successors(a) = <<Null, Null, b, c>>
  /\ a \in Range(PreOrderAll(startNodes, <<>>))
  /\ \A i \in 1..Len(edges) :
       /\ edges[i].type # "FAILURE"
       /\ edges[i].to \in {b, c} => edges[i].from = a

ForwardEdge(e) == Connects(e) /\ e.type \in {"SUCCESS", "ALWAYS", "VALUE"}

RECURSIVE ReachableFrom(_)
ReachableFrom(S) ==
  LET next == S \cup {edges[i].to : i \in {j \in 1..Len(edges) :
                                             ForwardEdge(edges[j]) /\ edges[j].from \in S}}
  IN  IF next = S THEN S ELSE ReachableFrom(next)

StepType(id) == allParsedSteps[MapIndex(allParsedSteps, id)].type

(***************************************************************************)
(* C25  Main flow = success-reachable set: every step that is not a finish *)
(* step and that is reachable from a start-set step along SUCCESS, ALWAYS  *)
(* or VALUE edges between children is in mainFlow and not in failureFlow,  *)
(* also when a step has several outgoing edges of one type; no step of     *)
(* failureFlow is reachable that way.                                      *)
(***************************************************************************)
MainFlowIsSuccessReachable ==
  (Annotated /\ pc = "done") =>
    LET reachable == ReachableFrom(Range(startNodes))
    IN  /\ \A id \in reachable :
             StepType(id) # "finish" =>
               id \in Range(mainFlow) /\ id \notin Range(failureFlow)
        /\ \A id \in Range(failureFlow) : id \notin reachable

(***************************************************************************)
(* C26  Start set = targets of start edges: when some edge without a from  *)
(* names a child, the start set that seeds the main traversal is exactly   *)
(* the set of the children such an edge names; an edge with a from never   *)
(* makes its target a start step, whatever the names of the steps.         *)
(***************************************************************************)
StartEdgeTargets ==
  {edges[i].to : i \in {j \in 1..Len(edges) : edges[j].from = Null /\ IsStepId(edges[j].to)}}

StartSetIsStartEdgeTargets ==
  (Annotated /\ StartEdgeTargets # {}) => Range(startNodes) = StartEdgeTargets

(***************************************************************************)
(* C27  Unresolved 'from' is a no-op: an edge whose from is set and names  *)
(* no step while its to names one records no incoming path and sets no     *)
(* outgoing field, and mainFlow and failureFlow are, in content and order, *)
(* those of the edge list without that edge, also under the start-set      *)
(* fallback.                                                               *)
(***************************************************************************)
WithoutEdge(i) == SubSeq(edges, 1, i - 1) \o SubSeq(edges, i + 1, Len(edges))
UnknownFrom(e) == e.from # Null /\ ~IsStepId(e.from) /\ IsStepId(e.to)

UnresolvedFromIsNoOp ==
  \A i \in 1..Len(edges) :
    UnknownFrom(edges[i]) =>
      /\ Annotated =>
           allParsedSteps = SecondPass(FirstPass(children, <<>>), WithoutEdge(i))
      /\ (Annotated /\ pc = "done") =>
           /\ mainFlow = ParseProcess(children, WithoutEdge(i)).mainFlow
           /\ failureFlow = ParseProcess(children, WithoutEdge(i)).failureFlow

(***************************************************************************)
(* C28  No process name is lost by de-duplication: for every batch that    *)
(* parseUCD accepts, every name that some process of the concatenated list *)
(* carries together with a rootActivity is the name of exactly one         *)
(* returned process, also when an earlier process of that name has no      *)
(* rootActivity.                                                           *)
(***************************************************************************)
NamesWithRoot == {allProcesses[i].name : i \in {j \in 1..Len(allProcesses) : allProcesses[j].hasRoot}}

NoNameLost ==
  (ucdPc = "done" /\ ~result.isNull) =>
    \A n \in NamesWithRoot :
      Cardinality({i \in 1..Len(result.processes) : result.processes[i].name = n}) = 1

(***************************************************************************)
(* Properties of the generation workflow                                   *)
(***************************************************************************)
HasWorkflowStep(w, id) == FindStep(w, id) # <<>>
StatusOf(w, id) == FindStep(w, id)[1].status
ResultOf(w, id) == FindStep(w, id)[1].result
\* every context source of the step names a completed step of w
ContextCompleted(w, id) ==
  \A i \in 1..Len(FindStep(w, id)[1].contextSourceIds) :
    /\ HasWorkflowStep(w, FindStep(w, id)[1].contextSourceIds[i])
    /\ StatusOf(w, FindStep(w, id)[1].contextSourceIds[i]) = "completed"
ErrorResults == {ContextError, "Error: model"}
\* the step id goes from loading to completed in this step of the machine
Completes(id) ==
  /\ HasWorkflowStep(workflow, id) /\ HasWorkflowStep(workflow', id)
  /\ StatusOf(workflow, id) = "loading"
  /\ StatusOf(workflow', id) = "completed"
\* t is the only child of id, it is not custom and its status is initial
SingleInitialChild(w, id, t) ==
  /\ Len(ChildrenOf(w, id)) = 1
  /\ ChildrenOf(w, id)[1].id = t
  /\ ~ChildrenOf(w, id)[1].isCustom
  /\ ChildrenOf(w, id)[1].status = "initial"

\* a step becomes loading only on a request made when all its context
\* sources were completed, and completed only from loading
GatedStart ==
  \A id \in StepIds :
    HasWorkflowStep(workflow', id) =>
      /\ (StatusOf(workflow, id) # "loading" /\ StatusOf(workflow', id) = "loading")
           => (StatusOf(workflow, id) \in {"initial", "pending", "completed", "error"}
               /\ ContextCompleted(workflow, id))
      /\ (StatusOf(workflow, id) # "completed" /\ StatusOf(workflow', id) = "completed")
           => (StatusOf(workflow, id) = "loading" /\ \E g \in inFlight : g.stepId = id)

\* a request made when some context source is not completed calls no model
\* and leaves the step in error with an error message
BlockedRequest ==
  \A id \in StepIds :
    (HandleGenerate(id) /\ ~ContextCompleted(workflow, id)) =>
      /\ inFlight' = inFlight
      /\ StatusOf(workflow', id) = "error"
      /\ ResultOf(workflow', id) \in ErrorResults

\* when a step completes, its single non-custom child that is still initial
\* becomes pending and no other step changes its status
OnlyChildPromoted ==
  \A id \in StepIds :
    Completes(id) =>
      \A t \in StepIds \ {id} :
        HasWorkflowStep(workflow', t) =>
          StatusOf(workflow', t) =
            (IF SingleInitialChild(workflow, id, t) THEN "pending" ELSE StatusOf(workflow, t))

(***************************************************************************)
(* C29  Context gating of workflow generation: a step goes from initial,   *)
(* pending, completed or error to loading and on to completed only if      *)
(* every id of its contextSourceIds named a completed step in the workflow *)
(* of the moment of the request; otherwise no model is called and the step *)
(* ends in error with an error message as result; when a step completes,   *)
(* its single non-custom child still in status initial becomes pending and *)
(* no other step changes its status.                                       *)
(***************************************************************************)
ContextGating == [][GatedStart /\ BlockedRequest /\ OnlyChildPromoted]_vars

\* the step ids and everything below them by parentId
RECURSIVE WithDescendants(_)
WithDescendants(S) ==
  LET next == S \cup {workflow[i].id : i \in {j \in 1..Len(workflow) : workflow[j].parentId \in S}}
  IN  IF next = S THEN S ELSE WithDescendants(next)

RefersTo(s, ids) ==
  \/ s.parentId \in ids
  \/ \E i \in 1..Len(s.contextSourceIds) : s.contextSourceIds[i] \in ids

(***************************************************************************)
(* C30  Delete cascade keeps the workflow closed: after any sequence of    *)
(* add-custom-step, generate and delete operations, deleting a step        *)
(* removes it and all its descendants by parentId, leaves every other step *)
(* unchanged, and no remaining step refers to a removed step, neither by   *)
(* parentId nor by contextSourceIds.                                       *)
(***************************************************************************)
DeleteCascadeClosed ==
  [][\A id \in StepIds :
       HandleDeleteStep(id) =>
         LET removed == WithDescendants({id})
         IN  /\ workflow' = SelectSeq(workflow, LAMBDA s : s.id \notin removed)
             /\ \A i \in 1..Len(workflow') : ~RefersTo(workflow'[i], removed)]_vars

====
